---------------------------- MODULE Spec2Model ----------------------------
(***************************************************************************)
(* In-context-learning evaluation metrics of llmfoundry/eval/metrics/nlp.py *)
(* as state machines: the code-eval pass@k accumulator replicated over      *)
(* worker processes (lazy per-sample state, barrier, execution client),     *)
(* the scalar-counter accuracy metrics, and compute() of each variant.      *)
(*                                                                          *)
(* Counters are float tensors in the code; every value they take here is a  *)
(* small whole number, which a float holds exactly, so they are naturals.   *)
(* Scores (quotients, pass@k estimates) are exact fractions <<num, den>>.   *)
(***************************************************************************)
EXTENDS Integers, Sequences, FiniteSets, TLC

(***************************************************************************)
(* Bounds of the model.                                                     *)
(***************************************************************************)
NumWorkers == 2
MaxUpdates == 4
DatasetSize == 2
MaxBatch == 2

Workers == 1..NumWorkers

(***************************************************************************)
(* Helpers on sequences.                                                    *)
(***************************************************************************)
Zeros(n) == [i \in 1..n |-> 0]

RECURSIVE SeqsUpTo(_, _)
SeqsUpTo(S, n) ==
    IF n = 0 THEN {<<>>}
    ELSE LET shorter == SeqsUpTo(S, n - 1)
         IN  shorter \cup {Append(s, x) : s \in {t \in shorter : Len(t) = n - 1}, x \in S}

(***************************************************************************)
(* Python strings are sequences of one-character strings; str.upper() maps  *)
(* each lower-case ASCII letter to its capital and keeps everything else.   *)
(***************************************************************************)
LowerLetters == <<"a","b","c","d","e","f","g","h","i","j","k","l","m",
                  "n","o","p","q","r","s","t","u","v","w","x","y","z">>
UpperLetters == <<"A","B","C","D","E","F","G","H","I","J","K","L","M",
                  "N","O","P","Q","R","S","T","U","V","W","X","Y","Z">>

UpperChar(c) ==
    IF \E i \in 1..Len(LowerLetters) : LowerLetters[i] = c
    THEN UpperLetters[CHOOSE i \in 1..Len(LowerLetters) : LowerLetters[i] = c]
    ELSE c

Upper(s) == [i \in 1..Len(s) |-> UpperChar(s[i])]

STR_LOCAL == <<"L","O","C","A","L">>
STR_LAMBDA == <<"L","A","M","B","D","A">>
STR_MOSAICML == <<"M","O","S","A","I","C","M","L">>

\* os.environ.get('CODE_EVAL_DEVICE', None): unset, or a string.
Unset == [set |-> FALSE, val |-> <<>>]
EnvStr(s) == [set |-> TRUE, val |-> s]

EnvValues ==
    { Unset,
      EnvStr(<<"l","o","c","a","l">>),
      EnvStr(<<"L","a","m","b","d","a">>),
      EnvStr(STR_MOSAICML),
      EnvStr(<<"g","p","u">>) }

\* __init__: eval_device is the selector upper-cased, or None when unset.
InitEvalDevice(env) ==
    IF env.set THEN EnvStr(Upper(env.val)) ELSE Unset

\* get_client falling back to the Lambda client ("Runs on AWS Lambdas by
\* default") instead of raising for an unset or unknown selector.
GetClient_DefaultLambda(dev) ==
    IF dev = EnvStr(STR_LOCAL)
    THEN [err |-> "none", client |-> "LocalEvalClient", warned |-> TRUE]
    ELSE IF dev = EnvStr(STR_MOSAICML)
    THEN [err |-> "none", client |-> "MosaicMLLambdaEvalClient", warned |-> FALSE]
    ELSE [err |-> "none", client |-> "LambdaEvalClient", warned |-> FALSE]

\* get_client: the client returned, or the ValueError raised.
GetClient(dev) ==
    IF dev = EnvStr(STR_LOCAL)
    THEN [err |-> "none", client |-> "LocalEvalClient", warned |-> TRUE]
    ELSE IF dev = EnvStr(STR_LAMBDA)
    THEN [err |-> "none", client |-> "LambdaEvalClient", warned |-> FALSE]
    ELSE IF dev = EnvStr(STR_MOSAICML)
    THEN [err |-> "none", client |-> "MosaicMLLambdaEvalClient", warned |-> FALSE]
    ELSE IF dev = Unset
    THEN [err |-> "ValueError", client |-> "none", warned |-> FALSE]
    ELSE [err |-> "ValueError", client |-> "none", warned |-> FALSE]


(***************************************************************************)
(* The names bound at module level of nlp.py: its imports and `log`.  A     *)
(* global name used in a method resolves only if it is one of these (or a   *)
(* class of the module); otherwise the use raises NameError.                *)
(***************************************************************************)
ModuleNames ==
    { "logging", "os", "warnings", "Any", "Dict", "List", "np", "torch",
      "dist", "EvalClient", "LambdaEvalClient", "LocalEvalClient",
      "MosaicMLLambdaEvalClient", "Tensor", "F", "Metric", "log" }

NameResolves(name) == name \in ModuleNames

(***************************************************************************)
(* Code-eval batches.  A generation of the batch carries its sample_id and  *)
(* the number of its (test_input, test_output) pairs.  What the execution   *)
(* client answers for a payload is decided when invoke() is called: "pass"  *)
(* (True), "fail" (False) or "raise" (invoke() raises).  dataset_size,      *)
(* pass_at_k and generations_per_sample are the dataset's and the same in   *)
(* every batch.                                                             *)
(***************************************************************************)
NumTests == 2
GenerationsPerSample == 2
BatchPassAtK == <<1, 2>>

TestAnswers == {"pass", "fail", "raise"}
Generations == [sample_id : 0..(DatasetSize - 1), ntests : {NumTests}]
GenBatches == SeqsUpTo(Generations, MaxBatch)
BatchHeader ==
    [dataset_size |-> DatasetSize, pass_at_k |-> BatchPassAtK,
     generations_per_sample |-> GenerationsPerSample]

VARIABLES
    environ,          \* CODE_EVAL_DEVICE in the environment of the processes
    eval_device,      \* self.eval_device of each replica
    initialized,      \* self._initialized
    dataset_size,     \* self.dataset_size
    pass_at_k,        \* self.pass_at_k
    num_generations,  \* self.num_generations
    correct,          \* state 'correct' (<<>> while not registered)
    total,            \* state 'total'   (<<>> while not registered)
    pc,               \* where each worker is: "idle", or "barrier" inside
                      \* dist.barrier() of its first update()
    outcome,          \* how the worker's last finished update() ended
    updates,          \* update() calls begun, per worker
    registrations,    \* times the per-sample states were registered
    barrierEntries,   \* times dist.barrier() was entered
    invokes,          \* client.invoke() calls made
    openClients,      \* clients acquired and not closed
    lastClient,       \* class of the client the last get_client() returned
    synced            \* a cross-worker reduction ran since the last update()

codeVars ==
    << environ, eval_device, initialized, dataset_size, pass_at_k, num_generations,
       correct, total, pc, outcome, updates, registrations,
       barrierEntries, invokes, openClients, lastClient, synced >>

\* One metric object of any variant, and the compute() calls made on it.
VARIABLES
    metric,      \* the metric object: its variant and its states
    drawn,       \* the object as it was before any compute()
    result,      \* what the last compute() returned or raised
    prevResult,  \* what the compute() before it returned or raised
    computes     \* compute() calls made (counted up to MaxComputes)

computeVars == << metric, drawn, result, prevResult, computes >>

\* Scalar-counter accuracies: two accumulators updated apart, and one that
\* is given every batch either of them is given.
VARIABLES
    accKind,     \* the variant: "lm_acc", "mc_acc" or "gen_em"
    accA,        \* [correct, total] of the first accumulator
    accB,        \* [correct, total] of the second accumulator
    accAll,      \* [correct, total] of the accumulator given all batches
    scoredItems  \* how many items the batches given to each of the two held

scalarVars == << accKind, accA, accB, accAll, scoredItems >>

\* One call of a function or method on its own: its arguments, and what it
\* returned or raised once it has run.
VARIABLES
    call,
    returned

callVars == << call, returned >>

\* One calibration-error accumulator under a sequence of update() calls.
VARIABLES
    eceAcc,      \* the object: its variant, n_buckets and the two bucket vectors
    eceItems,    \* how many items the updates so far got through
    eceHits,     \* how many of those items were correct
    eceRaised    \* how the last update() ended

bucketVars == << eceAcc, eceItems, eceHits, eceRaised >>

vars == << codeVars, computeVars, scalarVars, callVars, bucketVars >>



(***************************************************************************)
(* InContextLearningCodeEvalAccuracy.update, after the lazy initialisation: *)
(* get_client(), the loop over the generations, close().                    *)
(***************************************************************************)
\* The inner loop over the n test cases of one generation, the client
\* answering tests[i] to the i-th payload: one invoke() per test case,
\* stopping at the first one that raises.
RunTests(n, tests) ==
    LET raising == {i \in 1..n : tests[i] = "raise"}
        firstRaise == IF raising = {} THEN 0
                      ELSE CHOOSE i \in raising : \A j \in raising : i <= j
    IN  [err |-> IF firstRaise = 0 THEN "none" ELSE "InvokeError",
         invokes |-> IF firstRaise = 0 THEN n ELSE firstRaise,
         all_pass |-> \A i \in 1..n : tests[i] = "pass"]

\* Every way the inner loop can go, over the answers the client may give.
TestRuns(n) == {RunTests(n, tests) : tests \in [1..n -> TestAnswers]}

\* update() with the two counters swapped: the generation is recorded in
\* `correct` when it is seen and in `total` only when its tests pass.
RECURSIVE RunGenerations_CorrectFirst(_, _)
RunGenerations_CorrectFirst(st, gens) ==
    IF gens = <<>> THEN {st}
    ELSE
      LET idx == Head(gens).sample_id
          counted == [st EXCEPT !.correct[idx + 1] = @ + 1]
      IN  IF ~NameResolves("re")
          THEN {[counted EXCEPT !.err = "NameError"]}
          ELSE UNION {
                 LET invoked == [counted EXCEPT !.invokes = @ + r.invokes]
                 IN  IF r.err # "none"
                     THEN {[invoked EXCEPT !.err = r.err]}
                     ELSE RunGenerations_CorrectFirst(
                            IF r.all_pass
                            THEN [invoked EXCEPT !.total[idx + 1] = @ + 1]
                            ELSE invoked,
                            Tail(gens))
                 : r \in TestRuns(Head(gens).ntests) }

\* The loop over the generations, from st = [correct, total, invokes, err]:
\* the set of the ways it can end (one per choice of the client's answers).
RECURSIVE RunGenerations(_, _)
RunGenerations(st, gens) ==
    IF gens = <<>> THEN {st}
    ELSE
      LET idx == Head(gens).sample_id
          counted == [st EXCEPT !.total[idx + 1] = @ + 1]
      IN  IF ~NameResolves("re")
          THEN {[counted EXCEPT !.err = "NameError"]}
          ELSE UNION {
                 LET invoked == [counted EXCEPT !.invokes = @ + r.invokes]
                 IN  IF r.err # "none"
                     THEN {[invoked EXCEPT !.err = r.err]}
                     ELSE RunGenerations(
                            IF r.all_pass
                            THEN [invoked EXCEPT !.correct[idx + 1] = @ + 1]
                            ELSE invoked,
                            Tail(gens))
                 : r \in TestRuns(Head(gens).ntests) }

\* What update() does from get_client() on, for a replica whose states are
\* c (correct) and t (total): the states it leaves, how it ends, the invoke()
\* calls it made and whether the client it acquired is still open.
UpdateBody(dev, c, t, gens) ==
    LET got == GetClient(dev)
    IN  IF got.err # "none"
        THEN {[correct |-> c, total |-> t, outcome |-> got.err, invokes |-> 0,
               open |-> 0, client |-> got.client]}
        ELSE
          { [correct |-> st.correct, total |-> st.total,
             outcome |-> IF st.err = "none" THEN "ok" ELSE st.err,
             invokes |-> st.invokes,
             open |-> IF st.err = "none" THEN 0 ELSE 1,
             client |-> got.client]
            : st \in RunGenerations(
                       [correct |-> c, total |-> t, invokes |-> 0, err |-> "none"],
                       gens) }

\* update() without the `if not self._initialized` guard.
NeedsInit_Always(w) == TRUE

\* `if not self._initialized`
NeedsInit(w) == ~initialized[w]

\* _initialize_state without dist.barrier().
BarrierOpen_NoBarrier(w) == TRUE

\* A barrier that lets a worker through only after the others are through.
BarrierOpen_AfterOthersLeft(w) == \A v \in Workers \ {w} : initialized[v]

\* dist.barrier() returns for a worker once every worker has entered it.
BarrierOpen(w) == \A v \in Workers : barrierEntries[v] >= barrierEntries[w]

RECURSIVE SumCalls(_, _)
SumCalls(f, ws) ==
    IF ws = {} THEN 0
    ELSE LET w == CHOOSE v \in ws : TRUE IN f[w] + SumCalls(f, ws \ {w})

\* The model stops calling update() after MaxUpdates calls in all.
MayCall == SumCalls(updates, Workers) < MaxUpdates

InitCode ==
    /\ environ \in EnvValues
    /\ eval_device = [w \in Workers |-> InitEvalDevice(environ)]
    /\ initialized = [w \in Workers |-> FALSE]
    /\ dataset_size = [w \in Workers |-> 0]
    /\ pass_at_k = [w \in Workers |-> <<>>]
    /\ num_generations = [w \in Workers |-> 0]
    /\ correct = [w \in Workers |-> <<>>]
    /\ total = [w \in Workers |-> <<>>]
    /\ pc = [w \in Workers |-> "idle"]
    /\ outcome = [w \in Workers |-> "none"]
    /\ updates = [w \in Workers |-> 0]
    /\ registrations = [w \in Workers |-> 0]
    /\ barrierEntries = [w \in Workers |-> 0]
    /\ invokes = [w \in Workers |-> 0]
    /\ openClients = [w \in Workers |-> 0]
    /\ lastClient = [w \in Workers |-> "none"]
    /\ synced = FALSE

\* The body of update() applied to worker w's replica.
RunBody(w, gens) ==
    \E r \in UpdateBody(eval_device[w], correct[w], total[w], gens) :
        /\ correct' = [correct EXCEPT ![w] = r.correct]
        /\ total' = [total EXCEPT ![w] = r.total]
        /\ outcome' = [outcome EXCEPT ![w] = r.outcome]
        /\ invokes' = [invokes EXCEPT ![w] = @ + r.invokes]
        /\ openClients' = [openClients EXCEPT ![w] = @ + r.open]
        /\ lastClient' = [lastClient EXCEPT ![w] = r.client]
        /\ pc' = [pc EXCEPT ![w] = "idle"]

\* The first update() of a replica: _initialize_state up to dist.barrier().
UpdateFirst(w, batch) ==
    /\ pc[w] = "idle"
    /\ MayCall
    /\ NeedsInit(w)
    /\ updates' = [updates EXCEPT ![w] = @ + 1]
    /\ dataset_size' = [dataset_size EXCEPT ![w] = batch.dataset_size]
    /\ pass_at_k' = [pass_at_k EXCEPT ![w] = batch.pass_at_k]
    /\ num_generations' = [num_generations EXCEPT ![w] = batch.generations_per_sample]
    /\ correct' = [correct EXCEPT ![w] = Zeros(batch.dataset_size)]
    /\ total' = [total EXCEPT ![w] = Zeros(batch.dataset_size)]
    /\ registrations' = [registrations EXCEPT ![w] = @ + 1]
    /\ barrierEntries' = [barrierEntries EXCEPT ![w] = @ + 1]
    /\ pc' = [pc EXCEPT ![w] = "barrier"]
    /\ synced' = FALSE
    /\ UNCHANGED << environ, eval_device, initialized, outcome, invokes,
                    openClients, lastClient >>
    /\ UNCHANGED << computeVars, scalarVars, callVars, bucketVars >>

\* dist.barrier() returns; _initialized is set and update() runs to its end.
\* Nothing reads the generations of the batch before the loop, so they are
\* drawn here.
AfterBarrier(w, gens) ==
    /\ pc[w] = "barrier"
    /\ BarrierOpen(w)
    /\ initialized' = [initialized EXCEPT ![w] = TRUE]
    /\ RunBody(w, gens)
    /\ UNCHANGED << environ, eval_device, dataset_size, pass_at_k,
                    num_generations, updates, registrations, barrierEntries,
                    synced >>
    /\ UNCHANGED << computeVars, scalarVars, callVars, bucketVars >>

\* A later update() of a replica.
Update(w, gens) ==
    /\ pc[w] = "idle"
    /\ MayCall
    /\ ~NeedsInit(w)
    /\ updates' = [updates EXCEPT ![w] = @ + 1]
    /\ RunBody(w, gens)
    /\ synced' = FALSE
    /\ UNCHANGED << environ, eval_device, initialized, dataset_size,
                    pass_at_k, num_generations, registrations, barrierEntries >>
    /\ UNCHANGED << computeVars, scalarVars, callVars, bucketVars >>

\* The cross-worker reduction of the declared states (dist_reduce_fx='sum'):
\* a collective every worker takes part in, outside update().
Merge ==
    /\ \A w \in Workers : pc[w] = "idle"
    /\ ~synced
    /\ synced' = TRUE
    /\ UNCHANGED << environ, eval_device, initialized, dataset_size,
                    pass_at_k, num_generations, correct, total, pc, outcome,
                    updates, registrations, barrierEntries, invokes,
                    openClients, lastClient >>
    /\ UNCHANGED << computeVars, scalarVars, callVars, bucketVars >>



(***************************************************************************)
(* Scores.  A score is an exact fraction <<num, den>> in lowest terms with  *)
(* den >= 0; float division by zero gives <<0, 0>> (nan) or <<1, 0>> (inf). *)
(***************************************************************************)
RECURSIVE GCD(_, _)
GCD(a, b) == IF b = 0 THEN a ELSE GCD(b, a % b)

AbsInt(a) == IF a < 0 THEN 0 - a ELSE a

Frac(n, d) ==
    IF d = 0 THEN << (IF n > 0 THEN 1 ELSE IF n < 0 THEN 0 - 1 ELSE 0), 0 >>
    ELSE LET g == GCD(AbsInt(n), AbsInt(d))
             sgn == IF d < 0 THEN 0 - 1 ELSE 1
         IN  << (sgn * n) \div g, (sgn * d) \div g >>

FAdd(x, y) == Frac(x[1] * y[2] + y[1] * x[2], x[2] * y[2])
FSub(x, y) == Frac(x[1] * y[2] - y[1] * x[2], x[2] * y[2])
FMul(x, y) == Frac(x[1] * y[1], x[2] * y[2])
FAbs(x) == << AbsInt(x[1]), x[2] >>
FLeq(x, y) == x[1] * y[2] <= y[1] * x[2]
FZero == Frac(0, 1)
FOne == Frac(1, 1)

(***************************************************************************)
(* InContextLearningCodeEvalAccuracy.estimator and compute.                 *)
(***************************************************************************)
\* np.prod(1.0 - k / np.arange(lo, hi + 1))
RECURSIVE ProdOneMinus(_, _, _)
ProdOneMinus(k, lo, hi) ==
    IF lo > hi THEN FOne
    ELSE FMul(Frac(lo - k, lo), ProdOneMinus(k, lo + 1, hi))

\* An estimator without the early return.
estimator_NoBoundary(n, c, k) ==
    FSub(FOne, ProdOneMinus(k, n - c + 1, n))

\* An estimator whose product starts one index early.
estimator_FromNMinusC(n, c, k) ==
    IF n - c < k THEN FOne
    ELSE FSub(FOne, ProdOneMinus(k, n - c, n))

\* An estimator that gives up, with 0.0, when fewer than k generations failed.
estimator_BoundaryZero(n, c, k) ==
    IF n - c < k THEN FZero
    ELSE FSub(FOne, ProdOneMinus(k, n - c + 1, n))

estimator(n, c, k) ==
    IF n - c < k THEN FOne
    ELSE FSub(FOne, ProdOneMinus(k, n - c + 1, n))

\* f'pass@{k}'
PassKey(k) == "pass@" \o ToString(k)

\* sum([self.estimator(n, int(c.item()), k) for c in self.correct[complete]])
RECURSIVE SumEstimates(_, _, _, _, _)
SumEstimates(c, complete, n, k, i) ==
    IF i > Len(c) THEN FZero
    ELSE IF complete[i]
         THEN FAdd(estimator(n, c[i], k), SumEstimates(c, complete, n, k, i + 1))
         ELSE SumEstimates(c, complete, n, k, i + 1)

\* complete = self.total == self.num_generations
CompleteMask_AnyObserved(t, n) == [i \in 1..Len(t) |-> t[i] # 0]

CompleteMask(t, n) == [i \in 1..Len(t) |-> t[i] = n]

CountTrue(mask) == Cardinality({i \in 1..Len(mask) : mask[i]})

\* The loop `for k in self.pass_at_k`, from the dict built so far; ks are the
\* values of k still to do.  Dividing by complete.sum().item() == 0 raises.
RECURSIVE PassAtKLoop(_, _, _, _, _)
PassAtKLoop(results, ks, c, complete, n) ==
    IF ks = <<>> THEN [err |-> "none", results |-> results]
    ELSE IF CountTrue(complete) = 0
         THEN [err |-> "ZeroDivisionError", results |-> results]
         ELSE LET k == Head(ks)
                  mean == FMul(SumEstimates(c, complete, n, k, 1),
                               Frac(1, CountTrue(complete)))
              IN  PassAtKLoop((PassKey(k) :> mean) @@ results, Tail(ks),
                              c, complete, n)

NoResults == [key \in {} |-> FZero]

\* The correct-exceeds-total check restricted to the complete samples.
CorrectExceedsTotal_CompleteOnly(ce) ==
    \E i \in 1..Len(ce.correct) :
        ce.total[i] = ce.num_generations /\ ce.correct[i] > ce.total[i]

\* (self.correct > self.total).any().item()
CorrectExceedsTotal(ce) ==
    \E i \in 1..Len(ce.correct) : ce.correct[i] > ce.total[i]

\* compute() without the single-k compatibility branch.
ReturnValue_AlwaysMapping(results) ==
    [shape |-> "mapping", value |-> results]

\* `if len(results) == 1: return list(results.values())[0]`, else the dict.
ReturnValue(results) ==
    IF Cardinality(DOMAIN results) = 1
    THEN [shape |-> "scalar",
          value |-> results[CHOOSE key \in DOMAIN results : TRUE]]
    ELSE [shape |-> "mapping", value |-> results]

\* compute() of a replica with states c, t: what it returns or raises, and
\* whether it warned.  ce.registered is FALSE while the states do not exist.
CodeEvalCompute(ce) ==
    IF ~ce.registered
    THEN [shape |-> "error", err |-> "AttributeError", warned |-> FALSE]
    ELSE
      LET complete == CompleteMask(ce.total, ce.num_generations)
          warned == CountTrue(complete)
                      < Cardinality({i \in 1..Len(ce.total) : ce.total[i] # 0})
      IN  IF CorrectExceedsTotal(ce)
          THEN [shape |-> "error", err |-> "ValueError", warned |-> warned]
          ELSE
            LET loop == PassAtKLoop(NoResults, ce.pass_at_k, ce.correct,
                                    complete, ce.num_generations)
            IN  IF loop.err # "none"
                THEN [shape |-> "error", err |-> loop.err, warned |-> warned]
                ELSE LET ret == ReturnValue(loop.results)
                     IN  [shape |-> ret.shape, value |-> ret.value,
                          warned |-> warned]

(***************************************************************************)
(* compute() of the scalar-counter accuracies and of the calibration error. *)
(***************************************************************************)
\* return self.correct / self.total
AccuracyCompute(acc) ==
    [shape |-> "scalar", value |-> Frac(acc.correct, acc.total), warned |-> FALSE]

\* A loop that measures each bucket against its upper bound, not its middle.
RECURSIVE ECELoop_UpperBound(_, _, _)
ECELoop_UpperBound(ece, total_obs, j) ==
    IF j > ece.n_buckets THEN FZero
    ELSE IF ece.bucket_totals[j] = 0 THEN ECELoop_UpperBound(ece, total_obs, j + 1)
    ELSE
      LET acc_bucket_i == Frac(ece.bucket_correct[j], ece.bucket_totals[j])
          upper_bound == Frac(j, ece.n_buckets)
      IN  FAdd(FMul(Frac(ece.bucket_totals[j], total_obs),
                    FAbs(FSub(acc_bucket_i, upper_bound))),
               ECELoop_UpperBound(ece, total_obs, j + 1))

\* The loop `for i in range(self.n_buckets)` of
\* InContextLearningExpectedCalibrationError.compute, from bucket j = i + 1.
RECURSIVE ECELoop(_, _, _)
ECELoop(ece, total_obs, j) ==
    IF j > ece.n_buckets THEN FZero
    ELSE IF ece.bucket_totals[j] = 0 THEN ECELoop(ece, total_obs, j + 1)
    ELSE
      LET acc_bucket_i == Frac(ece.bucket_correct[j], ece.bucket_totals[j])
          upper_bound == Frac(j, ece.n_buckets)
          lower_bound == Frac(j - 1, ece.n_buckets)
          conf_bucket_i == FMul(FAdd(upper_bound, lower_bound), Frac(1, 2))
      IN  FAdd(FMul(Frac(ece.bucket_totals[j], total_obs),
                    FAbs(FSub(acc_bucket_i, conf_bucket_i))),
               ECELoop(ece, total_obs, j + 1))

RECURSIVE SumSeq(_, _)
SumSeq(v, i) == IF i > Len(v) THEN 0 ELSE v[i] + SumSeq(v, i + 1)

ECECompute(ece) ==
    [shape |-> "scalar",
     value |-> ECELoop(ece, SumSeq(ece.bucket_totals, 1), 1),
     warned |-> FALSE]

(***************************************************************************)
(* One metric object of any variant and the compute() calls made on it.     *)
(* compute() assigns no attribute and no state of the object.               *)
(***************************************************************************)
MaxComputes == 2
NBuckets == 2
ScoreCounts == 0..GenerationsPerSample
PassAtKChoices == {<<>>, <<1>>, <<2>>, <<1, 2>>, <<1, 1>>}

CodeEvalObjects ==
    { [kind |-> "code_eval", registered |-> FALSE, dataset_size |-> 0,
       correct |-> <<>>, total |-> <<>>, num_generations |-> 0,
       pass_at_k |-> <<>>] }
    \cup
    [kind : {"code_eval"}, registered : {TRUE}, dataset_size : {DatasetSize},
     correct : [1..DatasetSize -> ScoreCounts],
     total : [1..DatasetSize -> 0..(GenerationsPerSample + 1)],
     num_generations : {GenerationsPerSample},
     pass_at_k : PassAtKChoices]

\* update() of these classes never adds to correct without adding to total.
AccuracyObjects ==
    {acc \in [kind : {"lm_acc", "mc_acc", "gen_em"},
              correct : ScoreCounts, total : ScoreCounts] :
        acc.correct <= acc.total}

ECEObjects ==
    {ece \in [kind : {"ece_lm", "ece_mc"}, n_buckets : {NBuckets},
              bucket_totals : [1..NBuckets -> ScoreCounts],
              bucket_correct : [1..NBuckets -> ScoreCounts]] :
        \A i \in 1..NBuckets : ece.bucket_correct[i] <= ece.bucket_totals[i]}

NoObject == [kind |-> "none"]
NoResult == [shape |-> "none"]

\* A compute() that also clears the counters it read.
CodeEvalComputeStep_Clearing(ce) ==
    [metric |-> IF ce.registered
                THEN [ce EXCEPT !.correct = Zeros(Len(ce.correct)),
                                !.total = Zeros(Len(ce.total))]
                ELSE ce,
     result |-> CodeEvalCompute(ce)]

\* A compute() that empties the buckets it has folded into the result.
ECEComputeStep_Draining(ece) ==
    [metric |-> [ece EXCEPT !.bucket_totals = Zeros(ece.n_buckets),
                            !.bucket_correct = Zeros(ece.n_buckets)],
     result |-> ECECompute(ece)]

\* The object after compute() and what compute() gave.
CodeEvalComputeStep(ce) == [metric |-> ce, result |-> CodeEvalCompute(ce)]
AccuracyComputeStep(acc) == [metric |-> acc, result |-> AccuracyCompute(acc)]
ECEComputeStep(ece) == [metric |-> ece, result |-> ECECompute(ece)]

Computed(step) ==
    /\ metric' = step.metric
    /\ prevResult' = result
    /\ result' = step.result
    /\ computes' = IF computes < MaxComputes THEN computes + 1 ELSE computes
    /\ UNCHANGED << drawn, codeVars, scalarVars, callVars, bucketVars >>

ComputeCodeEval ==
    /\ metric.kind = "code_eval"
    /\ Computed(CodeEvalComputeStep(metric))

ComputeAccuracy ==
    /\ metric.kind \in {"lm_acc", "mc_acc", "gen_em"}
    /\ Computed(AccuracyComputeStep(metric))

ComputeECE ==
    /\ metric.kind \in {"ece_lm", "ece_mc"}
    /\ Computed(ECEComputeStep(metric))

\* No replicas at work: the code-eval workers of Spec stay as constructed.
CodeIdle ==
    /\ environ = Unset
    /\ InitCode

\* No accuracy accumulators.
ScalarIdle ==
    /\ accKind = "none"
    /\ accA = [correct |-> 0, total |-> 0]
    /\ accB = [correct |-> 0, total |-> 0]
    /\ accAll = [correct |-> 0, total |-> 0]
    /\ scoredItems = [A |-> 0, B |-> 0]

\* No calibration-error accumulator under update().
BucketIdle ==
    /\ eceAcc = [kind |-> "none"]
    /\ eceItems = 0
    /\ eceHits = 0
    /\ eceRaised = "none"

\* No call on its own.
NoCall == [op |-> "none"]
NoReturn == [done |-> FALSE]
CallIdle ==
    /\ call = NoCall
    /\ returned = NoReturn

\* No single object under compute().
ComputeIdle ==
    /\ metric = NoObject
    /\ drawn = NoObject
    /\ result = NoResult
    /\ prevResult = NoResult
    /\ computes = 0

InitCompute ==
    /\ CodeIdle
    /\ ScalarIdle
    /\ CallIdle
    /\ BucketIdle
    /\ metric \in CodeEvalObjects \cup AccuracyObjects \cup ECEObjects
    /\ drawn = metric
    /\ result = NoResult
    /\ prevResult = NoResult
    /\ computes = 0

NextCompute ==
    \/ ComputeCodeEval
    \/ ComputeAccuracy
    \/ ComputeECE

SpecCompute == InitCompute /\ [][NextCompute]_vars

(***************************************************************************)
(* The scalar-counter metrics: InContextLearningLMAccuracy,                 *)
(* InContextLearningMultipleChoiceAccuracy and                              *)
(* InContextLearningGenerationExactMatchAccuracy.  Each keeps two counters, *)
(* correct and total, both registered with dist_reduce_fx='sum'.  Three     *)
(* accumulators of one class are followed: accA and accB each see their own *)
(* batches, accAll sees every batch given to either.                        *)
(***************************************************************************)
MaxScored == 4

FreshState == [correct |-> 0, total |-> 0]

\* dist_reduce_fx='sum' on both states.
MergeStates(a, b) ==
    [correct |-> a.correct + b.correct, total |-> a.total + b.total]

\* tensor.index_select(dim=0, index=idx), idx holding 0-based positions.
IndexSelect(t, idx) == [j \in 1..Len(idx) |-> t[idx[j] + 1]]

\* cont_idx - 1, elementwise.
MinusOne(idx) == [j \in 1..Len(idx) |-> idx[j] - 1]

\* row.argmax(dim=-1) as a 0-based token id; the first of the maxima.
ArgMax(row) ==
    (CHOOSE i \in 1..Len(row) :
        \A j \in 1..Len(row) :
            /\ row[j] <= row[i]
            /\ (j < i => row[j] < row[i])) - 1

\* A sample that counts as soon as one continuation position matches.
LMCorrect_AnyPosition(sample) ==
    LET rows == IndexSelect(sample.outputs, MinusOne(sample.cont_idx))
        cont_tok_pred == [j \in 1..Len(rows) |-> ArgMax(rows[j])]
        cont_tok_targ == IndexSelect(sample.labels, MinusOne(sample.cont_idx))
    IN  \E j \in 1..Len(rows) : cont_tok_pred[j] = cont_tok_targ[j]

\* (cont_tok_pred == cont_tok_targ).all() for one sample of an LM batch.
LMCorrect(sample) ==
    LET rows == IndexSelect(sample.outputs, MinusOne(sample.cont_idx))
        cont_tok_pred == [j \in 1..Len(rows) |-> ArgMax(rows[j])]
        cont_tok_targ == IndexSelect(sample.labels, MinusOne(sample.cont_idx))
    IN  \A j \in 1..Len(rows) : cont_tok_pred[j] = cont_tok_targ[j]

\* An update that forgets what the accumulator held.
RECURSIVE LMUpdate_Overwrite(_, _)
LMUpdate_Overwrite(acc, batch) ==
    IF batch = <<>> THEN acc
    ELSE LMUpdate_Overwrite(
             [correct |-> IF LMCorrect(Head(batch)) THEN 1 ELSE 0, total |-> 1],
             Tail(batch))

\* InContextLearningLMAccuracy.update, one sample of the batch at a time.
RECURSIVE LMUpdate(_, _)
LMUpdate(acc, batch) ==
    IF batch = <<>> THEN acc
    ELSE LMUpdate(
             [acc EXCEPT !.correct = @ + (IF LMCorrect(Head(batch)) THEN 1 ELSE 0),
                         !.total = @ + 1],
             Tail(batch))

\* torch.exp on the cross-entropy of a row.  Cross-entropies are drawn as
\* small naturals and only min() and index() read the perplexities, so a
\* strictly increasing function of them stands for the exponential.
Perplexity(cross_entropy) == 2 ^ cross_entropy

\* The choice the model finds least likely, in place of the most likely.
IndexOfMin_Max(subset) ==
    (CHOOSE i \in 1..Len(subset) :
        \A j \in 1..Len(subset) :
            /\ subset[j] <= subset[i]
            /\ (j < i => subset[j] < subset[i])) - 1

\* subset.index(min(subset)), 0-based: the first of the minima.
IndexOfMin(subset) ==
    (CHOOSE i \in 1..Len(subset) :
        \A j \in 1..Len(subset) :
            /\ subset[i] <= subset[j]
            /\ (j < i => subset[i] < subset[j])) - 1

\* A second loop that counts every choice of a question as an item.
RECURSIVE MCLoop_PerChoice(_, _, _, _)
MCLoop_PerChoice(acc, perplexities, batch, q) ==
    IF q > Len(batch.choice_groupings) \/ q > Len(batch.gold_indices) THEN acc
    ELSE LET start == batch.choice_groupings[q][1]
             end == batch.choice_groupings[q][2]
             subset == SubSeq(perplexities, start + 1, end)
             idx_min == IndexOfMin(subset)
         IN  MCLoop_PerChoice([acc EXCEPT
                        !.correct = @ + (IF idx_min = batch.gold_indices[q] THEN 1 ELSE 0),
                        !.total = @ + (end - start)],
                    perplexities, batch, q + 1)

\* The second loop of InContextLearningMultipleChoiceAccuracy.update, from
\* question q on; perplexities[start:end] is SubSeq(.., start + 1, end).
RECURSIVE MCLoop(_, _, _, _)
MCLoop(acc, perplexities, batch, q) ==
    IF q > Len(batch.choice_groupings) \/ q > Len(batch.gold_indices) THEN acc
    ELSE LET start == batch.choice_groupings[q][1]
             end == batch.choice_groupings[q][2]
             subset == SubSeq(perplexities, start + 1, end)
             idx_min == IndexOfMin(subset)
         IN  MCLoop([acc EXCEPT
                        !.correct = @ + (IF idx_min = batch.gold_indices[q] THEN 1 ELSE 0),
                        !.total = @ + 1],
                    perplexities, batch, q + 1)

\* InContextLearningMultipleChoiceAccuracy.update.
MCUpdate(acc, batch) ==
    LET perplexities ==
            [r \in 1..Len(batch.cross_entropy) |-> Perplexity(batch.cross_entropy[r])]
    IN  MCLoop(acc, perplexities, batch, 1)

LowerChar(c) ==
    IF \E i \in 1..Len(UpperLetters) : UpperLetters[i] = c
    THEN LowerLetters[CHOOSE i \in 1..Len(UpperLetters) : UpperLetters[i] = c]
    ELSE c

Lower(s) == [i \in 1..Len(s) |-> LowerChar(s[i])]

\* str.startswith
StartsWith(s, prefix) ==
    /\ Len(prefix) <= Len(s)
    /\ SubSeq(s, 1, Len(prefix)) = prefix

\* A post-processing callable of the batch: "lower" lower-cases the output
\* and every label, "upper_labels" upper-cases the labels and keeps the
\* output.
ApplyFunc(func, output, labels) ==
    IF func = "lower"
    THEN [output |-> Lower(output), labels |-> {Lower(l) : l \in labels}]
    ELSE IF func = "upper_labels"
    THEN [output |-> output, labels |-> {Upper(l) : l \in labels}]
    ELSE [output |-> output, labels |-> labels]

\* The transforms applied from the last declared to the first.
RECURSIVE ApplyFuncs_Reversed(_, _, _)
ApplyFuncs_Reversed(funcs, output, labels) ==
    IF funcs = <<>> THEN [output |-> output, labels |-> labels]
    ELSE LET r == ApplyFunc(funcs[Len(funcs)], output, labels)
         IN  ApplyFuncs_Reversed(SubSeq(funcs, 1, Len(funcs) - 1),
                                 r.output, r.labels)

RECURSIVE ApplyFuncs(_, _, _)
ApplyFuncs(funcs, output, labels) ==
    IF funcs = <<>> THEN [output |-> output, labels |-> labels]
    ELSE LET r == ApplyFunc(Head(funcs), output, labels)
         IN  ApplyFuncs(Tail(funcs), r.output, r.labels)

\* One (sample_output, sample_labels) pair of the generation metric.
GenCorrect(post_processing_funcs, sample_output, sample_labels) ==
    LET start == [output |-> sample_output,
                  labels |-> {sample_labels[j] : j \in 1..Len(sample_labels)}]
        cleaned == IF post_processing_funcs.set
                   THEN ApplyFuncs(post_processing_funcs.val, start.output, start.labels)
                   ELSE start
    IN  \E label \in cleaned.labels : StartsWith(cleaned.output, label)

\* InContextLearningGenerationExactMatchAccuracy.update over
\* zip(outputs, labels), from pair j on.
RECURSIVE GenLoop(_, _, _)
GenLoop(acc, batch, j) ==
    IF j > Len(batch.outputs) \/ j > Len(batch.labels) THEN acc
    ELSE GenLoop(
             [acc EXCEPT
                 !.correct = @ + (IF GenCorrect(batch.post_processing_funcs,
                                                batch.outputs[j], batch.labels[j])
                                  THEN 1 ELSE 0),
                 !.total = @ + 1],
             batch, j + 1)

GenUpdate(acc, batch) == GenLoop(acc, batch, 1)

\* Batches of the language-modelling metric: two positions, a vocabulary of
\* two tokens, logits without ties.
LogitRows == {<<1, 0>>, <<0, 1>>}
LMSamples ==
    [outputs : {<<a, b>> : a \in LogitRows, b \in LogitRows},
     labels : {<<0, 1>>},
     cont_idx : {<<1>>, <<2>>, <<1, 2>>}]
LMBatches == SeqsUpTo(LMSamples, MaxBatch)

\* Batches of the multiple-choice metric: questions of two choices, one row
\* per choice, the rows of a question next to each other.
MCQuestions == [cross_entropy : {<<0, 1>>, <<1, 0>>, <<1, 1>>}, gold : {0, 1}]

RECURSIVE FlatRows(_)
FlatRows(qs) ==
    IF qs = <<>> THEN <<>> ELSE Head(qs).cross_entropy \o FlatRows(Tail(qs))

MCBatchOf(qs) ==
    [cross_entropy |-> FlatRows(qs),
     choice_groupings |-> [q \in 1..Len(qs) |-> <<2 * (q - 1), 2 * q>>],
     gold_indices |-> [q \in 1..Len(qs) |-> qs[q].gold]]
MCBatches == {MCBatchOf(qs) : qs \in SeqsUpTo(MCQuestions, MaxBatch)}

\* Batches of the generation metric.
NoFuncs == [set |-> FALSE, val |-> <<>>]
Funcs(fs) == [set |-> TRUE, val |-> fs]
GenPairs ==
    [output : {<<"y","e","s","!">>, <<"Y","e","s">>, <<"n","o">>},
     labels : {<< <<"y","e","s">> >>, << <<"N","o">>, <<"y","e","s">> >>}]
GenBatchOf(funcs, pairs) ==
    [post_processing_funcs |-> funcs,
     outputs |-> [j \in 1..Len(pairs) |-> pairs[j].output],
     labels |-> [j \in 1..Len(pairs) |-> pairs[j].labels]]
GenEMBatches ==
    {GenBatchOf(funcs, pairs) :
        funcs \in {NoFuncs, Funcs(<<>>), Funcs(<<"lower">>)},
        pairs \in SeqsUpTo(GenPairs, MaxBatch)}

Targets == {"A", "B"}

\* update(batch) on accumulator `target`; the one accumulator fed with the
\* batches of both receives the same call.
UpdateLM(target, batch) ==
    /\ accKind = "lm_acc"
    /\ accAll.total + Len(batch) <= MaxScored
    /\ scoredItems.A + scoredItems.B + Len(batch) <= MaxScored
    /\ accA' = IF target = "A" THEN LMUpdate(accA, batch) ELSE accA
    /\ accB' = IF target = "B" THEN LMUpdate(accB, batch) ELSE accB
    /\ accAll' = LMUpdate(accAll, batch)
    /\ scoredItems' = [scoredItems EXCEPT ![target] = @ + Len(batch)]
    /\ UNCHANGED << accKind, codeVars, computeVars, callVars, bucketVars >>

UpdateMC(target, batch) ==
    /\ accKind = "mc_acc"
    /\ accAll.total + Len(batch.gold_indices) <= MaxScored
    /\ scoredItems.A + scoredItems.B + Len(batch.gold_indices) <= MaxScored
    /\ accA' = IF target = "A" THEN MCUpdate(accA, batch) ELSE accA
    /\ accB' = IF target = "B" THEN MCUpdate(accB, batch) ELSE accB
    /\ accAll' = MCUpdate(accAll, batch)
    /\ scoredItems' = [scoredItems EXCEPT ![target] = @ + Len(batch.gold_indices)]
    /\ UNCHANGED << accKind, codeVars, computeVars, callVars, bucketVars >>

UpdateGenEM(target, batch) ==
    /\ accKind = "gen_em"
    /\ accAll.total + Len(batch.outputs) <= MaxScored
    /\ scoredItems.A + scoredItems.B + Len(batch.outputs) <= MaxScored
    /\ accA' = IF target = "A" THEN GenUpdate(accA, batch) ELSE accA
    /\ accB' = IF target = "B" THEN GenUpdate(accB, batch) ELSE accB
    /\ accAll' = GenUpdate(accAll, batch)
    /\ scoredItems' = [scoredItems EXCEPT ![target] = @ + Len(batch.outputs)]
    /\ UNCHANGED << accKind, codeVars, computeVars, callVars, bucketVars >>

InitScalar ==
    /\ CodeIdle
    /\ ComputeIdle
    /\ CallIdle
    /\ BucketIdle
    /\ accKind \in {"lm_acc", "mc_acc", "gen_em"}
    /\ accA = FreshState
    /\ accB = FreshState
    /\ accAll = FreshState
    /\ scoredItems = [A |-> 0, B |-> 0]

NextScalar ==
    \/ \E target \in Targets, batch \in LMBatches : UpdateLM(target, batch)
    \/ \E target \in Targets, batch \in MCBatches : UpdateMC(target, batch)
    \/ \E target \in Targets, batch \in GenEMBatches : UpdateGenEM(target, batch)

SpecScalar == InitScalar /\ [][NextScalar]_vars

(***************************************************************************)
(* update() of the two calibration-error variants.  torch.softmax is not    *)
(* recomputed: a batch carries the probabilities it gives, as fractions.    *)
(***************************************************************************)
FLess(x, y) == x[1] * y[2] < y[1] * x[2]

\* The largest, and the first position of the largest, of a sequence of
\* fractions; the smallest.
MaxOf(v) == v[CHOOSE i \in 1..Len(v) : \A j \in 1..Len(v) : FLeq(v[j], v[i])]
MinOf(v) == v[CHOOSE i \in 1..Len(v) : \A j \in 1..Len(v) : FLeq(v[i], v[j])]
IndexOfMax(v) ==
    (CHOOSE i \in 1..Len(v) :
        \A j \in 1..Len(v) :
            /\ FLeq(v[j], v[i])
            /\ (j < i => FLess(v[j], v[i]))) - 1

RECURSIVE SumOf(_)
SumOf(v) == IF v = <<>> THEN FZero ELSE FAdd(Head(v), SumOf(Tail(v)))

\* A bucket index that is never pulled back into range.
BucketIndex_Unclamped(confidence, n_buckets) ==
    (confidence[1] * n_buckets) \div confidence[2]

\* bucket_idx = int(confidence * self.n_buckets), less one if it equals
\* n_buckets; confidence is a fraction in [0, 1].
BucketIndex(confidence, n_buckets) ==
    LET bucket_idx == (confidence[1] * n_buckets) \div confidence[2]
    IN  IF bucket_idx = n_buckets THEN bucket_idx - 1 ELSE bucket_idx

\* assert confidence >= 0.0 and confidence <= 1.0; fails on nan (0/0).
ConfidenceOK(confidence) ==
    /\ confidence[2] # 0
    /\ FLeq(FZero, confidence)
    /\ FLeq(confidence, FOne)

\* Increments that count an item in bucket_totals only when it is correct.
Bucketed_HitsOnly(ece, bucket_idx, hit) ==
    [ece EXCEPT
        !.bucket_correct[bucket_idx + 1] = @ + (IF hit THEN 1 ELSE 0),
        !.bucket_totals[bucket_idx + 1] = @ + (IF hit THEN 1 ELSE 0)]

\* The two increments at the end of either update().
Bucketed(ece, bucket_idx, hit) ==
    [ece EXCEPT
        !.bucket_correct[bucket_idx + 1] = @ + (IF hit THEN 1 ELSE 0),
        !.bucket_totals[bucket_idx + 1] = @ + 1]

\* InContextLearningLMExpectedCalibrationError.update from sample b on;
\* st.self is the object so far, st.raised the exception that ended it.
RECURSIVE LMECELoop(_, _, _)
LMECELoop(st, batch, b) ==
    IF b > Len(batch) THEN st
    ELSE
      LET sample == batch[b]
          cont_tok_logits == IndexSelect(sample.probs, MinusOne(sample.cont_idx))
          cont_tok_pred == [j \in 1..Len(cont_tok_logits) |->
                               IndexOfMax(cont_tok_logits[j])]
          confidence == MinOf([j \in 1..Len(cont_tok_logits) |->
                                  MaxOf(cont_tok_logits[j])])
          cont_tok_targ == IndexSelect(sample.labels, MinusOne(sample.cont_idx))
      IN  IF ~ConfidenceOK(confidence)
          THEN [st EXCEPT !.raised = "AssertionError"]
          ELSE LMECELoop(
                 [st EXCEPT !.self =
                     Bucketed(@, BucketIndex(confidence, st.self.n_buckets),
                              \A j \in 1..Len(cont_tok_pred) :
                                  cont_tok_pred[j] = cont_tok_targ[j])],
                 batch, b + 1)

LMECEUpdate(ece, batch) == LMECELoop([self |-> ece, raised |-> "none"], batch, 1)

\* The probability of one row of the multiple-choice variant: the mean, over
\* the continuation positions, of the probability given to the target token.
RowProbability(row) ==
    LET cont_tok_logits == IndexSelect(row.probs, MinusOne(row.cont_idx))
        cont_tok_targ == IndexSelect(row.labels, MinusOne(row.cont_idx))
        diagonal == [j \in 1..Len(cont_tok_logits) |->
                        cont_tok_logits[j][cont_tok_targ[j] + 1]]
    IN  FMul(SumOf(diagonal), Frac(1, Len(diagonal)))

\* The second loop of InContextLearningMCExpectedCalibrationError.update,
\* from question q on.
RECURSIVE MCECELoop(_, _, _, _)
MCECELoop(st, probabilites, batch, q) ==
    IF q > Len(batch.choice_groupings) \/ q > Len(batch.gold_indices) THEN st
    ELSE
      LET start == batch.choice_groupings[q][1]
          end == batch.choice_groupings[q][2]
          subset == SubSeq(probabilites, start + 1, end)
          idx_max == IndexOfMax(subset)
          subset_sum == SumOf(subset)
          confidence == Frac(MaxOf(subset)[1] * subset_sum[2],
                             MaxOf(subset)[2] * subset_sum[1])
      IN  IF ~ConfidenceOK(confidence)
          THEN [st EXCEPT !.raised = "AssertionError"]
          ELSE MCECELoop(
                 [st EXCEPT !.self =
                     Bucketed(@, BucketIndex(confidence, st.self.n_buckets),
                              idx_max = batch.gold_indices[q])],
                 probabilites, batch, q + 1)

MCECEUpdate(ece, batch) ==
    MCECELoop([self |-> ece, raised |-> "none"],
              [r \in 1..Len(batch.rows) |-> RowProbability(batch.rows[r])],
              batch, 1)

(***************************************************************************)
(* Single calls: the pass@k estimator.                                      *)
(***************************************************************************)
MaxN == 4
MaxK == 3

\* estimator(n, c, k) with n generations of which c are correct.
EstimatorCalls ==
    {cl \in [op : {"estimator"}, n : 0..MaxN, c : 0..MaxN, k : 1..MaxK] :
        cl.c <= cl.n}

Returned(value) ==
    /\ ~returned.done
    /\ returned' = [done |-> TRUE, raised |-> "none", value |-> value]
    /\ UNCHANGED << call, codeVars, computeVars, scalarVars, bucketVars >>

\* The call ends, with an exception or without; value is what it returned
\* or, for a method, the object it leaves behind.
Finished(raised, value) ==
    /\ ~returned.done
    /\ returned' = [done |-> TRUE, raised |-> raised, value |-> value]
    /\ UNCHANGED << call, codeVars, computeVars, scalarVars, bucketVars >>

CallEstimator ==
    /\ call.op = "estimator"
    /\ Returned(estimator(call.n, call.c, call.k))

(***************************************************************************)
(* Single calls: update() of the scalar-counter metrics on an accumulator   *)
(* that is fresh or has already scored.                                     *)
(***************************************************************************)
StartStates == {FreshState, [correct |-> 1, total |-> 2]}

\* Samples of three positions over a vocabulary of two tokens; the
\* continuation is the first position, the last two, or all three.
LMCallSamples ==
    [outputs : {<<a, b, c>> : a \in LogitRows, b \in LogitRows, c \in LogitRows},
     labels : {<<0, 1, 0>>},
     cont_idx : {<<1>>, <<2, 3>>, <<1, 2, 3>>}]

LMCalls ==
    [op : {"lm_update"}, self : StartStates,
     batch : SeqsUpTo(LMCallSamples, MaxBatch)]

CallLMUpdate ==
    /\ call.op = "lm_update"
    /\ Returned(LMUpdate(call.self, call.batch))

\* Questions of two or three choices; gold index 2 does not exist in a
\* question of two choices.
MCCallQuestions ==
    [cross_entropy : {<<1, 0, 2>>, <<0, 0, 1>>, <<2, 1, 1>>, <<1, 1>>, <<1, 0>>},
     gold : {0, 1, 2}]

\* The 0-based row at which the choices of question q begin.
RECURSIVE GroupStarts(_, _)
GroupStarts(qs, q) ==
    IF q = 1 THEN 0
    ELSE GroupStarts(qs, q - 1) + Len(qs[q - 1].cross_entropy)

MCGroupedBatch(qs) ==
    [cross_entropy |-> FlatRows(qs),
     choice_groupings |->
        [q \in 1..Len(qs) |->
            << GroupStarts(qs, q), GroupStarts(qs, q) + Len(qs[q].cross_entropy) >>],
     gold_indices |-> [q \in 1..Len(qs) |-> qs[q].gold]]

MCCalls ==
    [op : {"mc_update"}, self : StartStates,
     batch : {MCGroupedBatch(qs) : qs \in SeqsUpTo(MCCallQuestions, MaxBatch)}]

CallMCUpdate ==
    /\ call.op = "mc_update"
    /\ Returned(MCUpdate(call.self, call.batch))

STR_YES_IT_IS == <<"y","e","s",","," ","i","t"," ","i","s">>
STR_NO == <<"n","o">>
STR_YES_CAP == <<"Y","e","s">>
STR_YES == <<"y","e","s">>
STR_NO_CAP == <<"N","o">>

GenCallPairs ==
    [output : {STR_YES_IT_IS, STR_NO, STR_YES_CAP},
     labels : {<<STR_YES>>, <<STR_NO_CAP, STR_YES>>}]

GenCallFuncs ==
    {NoFuncs, Funcs(<<>>), Funcs(<<"lower">>),
     Funcs(<<"lower", "upper_labels">>), Funcs(<<"upper_labels", "lower">>)}

GenCalls ==
    [op : {"gen_update"}, self : StartStates,
     batch : {GenBatchOf(funcs, pairs) :
                 funcs \in GenCallFuncs,
                 pairs \in SeqsUpTo(GenCallPairs, MaxBatch)}]

CallGenUpdate ==
    /\ call.op = "gen_update"
    /\ Returned(GenUpdate(call.self, call.batch))

(***************************************************************************)
(* Single calls: update() of the calibration-error variants on an object    *)
(* with empty buckets.                                                      *)
(***************************************************************************)
DefaultBuckets == 10

EmptyBuckets(kind, n) ==
    [kind |-> kind, n_buckets |-> n,
     bucket_totals |-> Zeros(n), bucket_correct |-> Zeros(n)]

\* A row of probabilities over two tokens, the first being a twentieths.
ProbRow(a) == << Frac(a, 20), Frac(20 - a, 20) >>

LMECESamples ==
    [probs : {<<r, t>> : r \in {ProbRow(19), ProbRow(1), ProbRow(20), ProbRow(10)},
                          t \in {ProbRow(19), ProbRow(1), ProbRow(12)}},
     labels : {<<0, 1>>},
     cont_idx : {<<1>>, <<1, 2>>}]

LMECECalls ==
    [op : {"ece_lm_update"},
     self : {EmptyBuckets("ece_lm", n) : n \in {NBuckets, DefaultBuckets}},
     batch : SeqsUpTo(LMECESamples, MaxBatch)]

\* Rows of the multiple-choice variant, of probability 19/20, 1/20, 0, 3/4.
MCECERows ==
    { [probs |-> <<ProbRow(19)>>, labels |-> <<0>>, cont_idx |-> <<1>>],
      [probs |-> <<ProbRow(19)>>, labels |-> <<1>>, cont_idx |-> <<1>>],
      [probs |-> <<ProbRow(20)>>, labels |-> <<1>>, cont_idx |-> <<1>>],
      [probs |-> <<ProbRow(20), ProbRow(10)>>, labels |-> <<0, 0>>,
       cont_idx |-> <<1, 2>>] }

MCECEQuestions == [first : MCECERows, second : MCECERows, gold : {0, 1}]

RECURSIVE QuestionRows(_)
QuestionRows(qs) ==
    IF qs = <<>> THEN <<>>
    ELSE << Head(qs).first, Head(qs).second >> \o QuestionRows(Tail(qs))

MCECEBatchOf(qs) ==
    [rows |-> QuestionRows(qs),
     choice_groupings |-> [q \in 1..Len(qs) |-> <<2 * (q - 1), 2 * q>>],
     gold_indices |-> [q \in 1..Len(qs) |-> qs[q].gold]]

MCECECalls ==
    [op : {"ece_mc_update"},
     self : {EmptyBuckets("ece_mc", n) : n \in {NBuckets, DefaultBuckets}},
     batch : {MCECEBatchOf(qs) : qs \in SeqsUpTo(MCECEQuestions, MaxBatch)}]

CallLMECEUpdate ==
    /\ call.op = "ece_lm_update"
    /\ LET done == LMECEUpdate(call.self, call.batch)
       IN  Finished(done.raised, done.self)

CallMCECEUpdate ==
    /\ call.op = "ece_mc_update"
    /\ LET done == MCECEUpdate(call.self, call.batch)
       IN  Finished(done.raised, done.self)

(***************************************************************************)
(* One calibration-error accumulator of either variant under a sequence of  *)
(* update() calls.  Next to the object the model keeps count of the items   *)
(* the updates got through and of the correct ones among them, told from    *)
(* the batch alone: an item of the language-modelling variant is correct    *)
(* when the most probable token is the label at every continuation          *)
(* position; a question of the multiple-choice variant when the choice of   *)
(* highest mean target probability is the gold one.  An update() stops at   *)
(* the first question whose probabilities sum to zero (the assert).         *)
(***************************************************************************)
\* The first most probable token of a row, counted from 0 as argmax does.
FirstTop(row) ==
    CHOOSE t \in 0..(Len(row) - 1) :
        \A u \in 0..(Len(row) - 1) :
            /\ FLeq(row[u + 1], row[t + 1])
            /\ (u < t => FLess(row[u + 1], row[t + 1]))

LMItem(sample) ==
    [valid |-> TRUE,
     hit |-> \A i \in 1..Len(sample.cont_idx) :
                 FirstTop(sample.probs[sample.cont_idx[i]])
                     = sample.labels[sample.cont_idx[i]]]

MCItem(question) ==
    LET a == RowProbability(question.first)
        b == RowProbability(question.second)
    IN  [valid |-> FAdd(a, b)[1] # 0,
         hit |-> (IF FLeq(b, a) THEN 0 ELSE 1) = question.gold]

\* The items an update() gets through, and the correct ones among them.
RECURSIVE ScoredOf(_)
ScoredOf(items) ==
    IF items = <<>> \/ ~Head(items).valid THEN [n |-> 0, hits |-> 0]
    ELSE LET rest == ScoredOf(Tail(items))
         IN  [n |-> rest.n + 1,
              hits |-> rest.hits + (IF Head(items).hit THEN 1 ELSE 0)]

\* Samples of confidence 19/20, 12/20 and 1/2, right and wrong.
BucketLMSamples ==
    {s \in LMECESamples :
        /\ s.probs[1] \in {ProbRow(19), ProbRow(1), ProbRow(10)}
        /\ s.probs[2] = ProbRow(12)}

\* Questions of confidence 1, 19/34 and, for two choices of probability
\* zero, of no confidence at all.
BucketMCQuestions ==
    {q \in MCECEQuestions :
        /\ RowProbability(q.first) \in {Frac(19, 20), FZero}
        /\ RowProbability(q.second) \in {Frac(3, 4), FZero}}

UpdateLMECE(batch) ==
    /\ eceAcc.kind = "ece_lm"
    /\ eceItems + Len(batch) <= MaxScored
    /\ LET done == LMECEUpdate(eceAcc, batch)
           given == ScoredOf([j \in 1..Len(batch) |-> LMItem(batch[j])])
       IN  /\ eceAcc' = done.self
           /\ eceRaised' = done.raised
           /\ eceItems' = eceItems + given.n
           /\ eceHits' = eceHits + given.hits
    /\ UNCHANGED << codeVars, computeVars, scalarVars, callVars >>

UpdateMCECE(questions) ==
    /\ eceAcc.kind = "ece_mc"
    /\ eceItems + Len(questions) <= MaxScored
    /\ LET done == MCECEUpdate(eceAcc, MCECEBatchOf(questions))
           given == ScoredOf([q \in 1..Len(questions) |-> MCItem(questions[q])])
       IN  /\ eceAcc' = done.self
           /\ eceRaised' = done.raised
           /\ eceItems' = eceItems + given.n
           /\ eceHits' = eceHits + given.hits
    /\ UNCHANGED << codeVars, computeVars, scalarVars, callVars >>

InitBuckets ==
    /\ CodeIdle
    /\ ComputeIdle
    /\ ScalarIdle
    /\ CallIdle
    /\ eceAcc \in {EmptyBuckets(kind, n) :
                  kind \in {"ece_lm", "ece_mc"}, n \in {NBuckets, DefaultBuckets}}
    /\ eceItems = 0
    /\ eceHits = 0
    /\ eceRaised = "none"

NextBuckets ==
    \/ \E batch \in SeqsUpTo(BucketLMSamples, MaxBatch) : UpdateLMECE(batch)
    \/ \E questions \in SeqsUpTo(BucketMCQuestions, MaxBatch) : UpdateMCECE(questions)

SpecBuckets == InitBuckets /\ [][NextBuckets]_vars

(***************************************************************************)
(* Single calls: update() of the classes that are not scoring variants.     *)
(***************************************************************************)
\* InContextLearningMetric.update: `raise NotImplementedError`.
BaseUpdate(self, batch) == [self |-> self, raised |-> "NotImplementedError"]

\* InContextLearningExpectedCalibrationError.update: `pass`.
ECEBaseUpdate(self, batch) == [self |-> self, raised |-> "none"]

BaseObjects == {[kind |-> "metric", needs_batch |-> TRUE]}

ECEBaseObjects ==
    {ece \in [kind : {"ece"}, n_buckets : {NBuckets},
              bucket_totals : [1..NBuckets -> 0..1],
              bucket_correct : [1..NBuckets -> 0..1]] :
        \A i \in 1..NBuckets : ece.bucket_correct[i] <= ece.bucket_totals[i]}

\* update() of these classes reads none of its arguments.
AnyBatches == SeqsUpTo(LMSamples, 1)

BaseCalls == [op : {"metric_update"}, self : BaseObjects, batch : AnyBatches]
ECEBaseCalls == [op : {"ece_update"}, self : ECEBaseObjects, batch : AnyBatches]

CallBaseUpdate ==
    /\ call.op = "metric_update"
    /\ LET done == BaseUpdate(call.self, call.batch)
       IN  Finished(done.raised, done.self)

CallECEBaseUpdate ==
    /\ call.op = "ece_update"
    /\ LET done == ECEBaseUpdate(call.self, call.batch)
       IN  Finished(done.raised, done.self)

(***************************************************************************)
(* MPTBlock (models/layers/blocks.py): construction of the residual         *)
(* coefficients and the forward pass.  Tensors are kept as terms: a leaf    *)
(* for an argument, and a node for every sub-module or operator applied.    *)
(* np.sqrt(v) is kept exact as the root of the fraction v.                  *)
(***************************************************************************)
MaxLayerNum == 3

NoneStr == [set |-> FALSE, val |-> ""]
Str(v) == [set |-> TRUE, val |-> v]
NoneNum == [set |-> FALSE, val |-> <<0, 1>>]
Num(v) == [set |-> TRUE, val |-> v]

Sqrt(v) == [sqrt_of |-> v]
OneOverSqrt(v) == [sqrt_of |-> Frac(v[2], v[1])]
Square(coeff) == coeff.sqrt_of
NoAttr == [sqrt_of |-> <<0, 0>>]

\* The residual weights of a block with wrong denominators for the stream.
LayerCoeffs_SameDenominator(layer_num) ==
    [branch_coeff_attn |-> OneOverSqrt(Frac(2 * layer_num, 1)),
     stream_coeff_attn |-> Sqrt(Frac(2 * layer_num - 1, 2 * layer_num + 1)),
     branch_coeff_ffn |-> OneOverSqrt(Frac(2 * layer_num + 1, 1)),
     stream_coeff_ffn |-> Sqrt(Frac(2 * layer_num, 2 * layer_num + 1))]

\* residual_modification == 'layer'
LayerCoeffs(layer_num) ==
    [branch_coeff_attn |-> OneOverSqrt(Frac(2 * layer_num, 1)),
     stream_coeff_attn |-> Sqrt(Frac(2 * layer_num - 1, 2 * layer_num)),
     branch_coeff_ffn |-> OneOverSqrt(Frac(2 * layer_num + 1, 1)),
     stream_coeff_ffn |-> Sqrt(Frac(2 * layer_num, 2 * layer_num + 1))]

\* residual_modification == 'coefficient'
CoefficientCoeffs(residual_coeff) ==
    [branch_coeff_attn |-> Sqrt(residual_coeff),
     stream_coeff_attn |-> Sqrt(FSub(FOne, residual_coeff)),
     branch_coeff_ffn |-> Sqrt(residual_coeff),
     stream_coeff_ffn |-> Sqrt(FSub(FOne, residual_coeff))]

NoCoeffs ==
    [branch_coeff_attn |-> NoAttr, stream_coeff_attn |-> NoAttr,
     branch_coeff_ffn |-> NoAttr, stream_coeff_ffn |-> NoAttr]

\* MPTBlock.__init__, as far as forward() reads what it sets.
MPTBlockInit(args) ==
    LET built(coeffs) ==
            [raised |-> "none",
             self |-> [residual_modification |-> args.residual_modification,
                       coeffs |-> coeffs,
                       has_norm_2 |-> ~args.ffn_has_norm,
                       use_pad_tok_in_ffn |-> args.use_pad_tok_in_ffn]]
        failed(err) ==
            [raised |-> err,
             self |-> [residual_modification |-> args.residual_modification,
                       coeffs |-> NoCoeffs,
                       has_norm_2 |-> ~args.ffn_has_norm,
                       use_pad_tok_in_ffn |-> args.use_pad_tok_in_ffn]]
    IN  IF /\ args.residual_modification # NoneStr
           /\ args.residual_modification \notin {Str("coefficient"), Str("layer")}
        THEN failed("ValueError")
        ELSE IF args.residual_modification = Str("layer")
        THEN built(LayerCoeffs(args.layer_num))
        ELSE IF args.residual_modification = Str("coefficient")
        THEN IF args.residual_coeff.set
             THEN built(CoefficientCoeffs(args.residual_coeff.val))
             ELSE failed("TypeError")
        ELSE built(NoCoeffs)

Leaf(name) == [f |-> name, args |-> <<>>]
Node(f, args) == [f |-> f, args |-> args]

\* stream_coeff * x + branch_coeff * branch, or x + branch without weights.
ResidualMerge(self, stream_coeff, x, branch_coeff, branch) ==
    IF self.residual_modification # NoneStr
    THEN Node("add", << Node("mul", <<Leaf(stream_coeff), x>>),
                        Node("mul", <<Leaf(branch_coeff), branch>>) >>)
    ELSE Node("add", <<x, branch>>)

\* MPTBlock.forward: the first element of the tuple it returns, and the
\* sub-modules and merges in the order they ran.
MPTBlockForward(self, x, attention_mask) ==
    LET a == Node("attn", <<x>>)
        b == Node("norm_1", <<a>>)
        x1 == ResidualMerge(self, "stream_coeff_attn", x, "branch_coeff_attn",
                            Node("resid_attn_dropout", <<b>>))
        m == IF ~self.use_pad_tok_in_ffn
             THEN Node("unpad_input", <<x1, attention_mask>>) ELSE x1
        ffn_out == Node("ffn", <<m>>)
        padded == IF ~self.use_pad_tok_in_ffn
                  THEN Node("pad_input", <<ffn_out>>) ELSE ffn_out
        n == IF self.has_norm_2 THEN Node("norm_2", <<padded>>) ELSE padded
        x2 == ResidualMerge(self, "stream_coeff_ffn", x1, "branch_coeff_ffn",
                            Node("resid_attn_dropout", <<b>>))
    IN  [x |-> x2,
         steps |-> <<"attn", "norm_1", "merge", "ffn">>
                   \o (IF self.has_norm_2 THEN <<"norm_2">> ELSE <<>>)
                   \o <<"merge">>]

BlockArgs ==
    [residual_modification : {NoneStr, Str("layer"), Str("coefficient"), Str("scale")},
     residual_coeff : {NoneNum} \cup {Num(Frac(i, 4)) : i \in 0..4},
     layer_num : 1..MaxLayerNum,
     ffn_has_norm : BOOLEAN,
     use_pad_tok_in_ffn : BOOLEAN]

BlockInitCalls == [op : {"block_init"}, args : BlockArgs]

\* forward() on every block that __init__ can build from BlockArgs.
Blocks == {MPTBlockInit(args).self : args \in {a \in BlockArgs : MPTBlockInit(a).raised = "none"}}

BlockForwardCalls ==
    [op : {"block_forward"}, self : Blocks, x : {Leaf("x")},
     attention_mask : {Leaf("attention_mask")}]

CallBlockInit ==
    /\ call.op = "block_init"
    /\ LET done == MPTBlockInit(call.args)
       IN  Finished(done.raised, done.self)

CallBlockForward ==
    /\ call.op = "block_forward"
    /\ Finished("none", MPTBlockForward(call.self, call.x, call.attention_mask))

(***************************************************************************)
(* A code-eval evaluation sharded over two replicas against the same        *)
(* evaluation on one: each replica update()s its own batch from the freshly *)
(* registered zeros, the reduction sums the replicas' vectors element-wise  *)
(* (dist_reduce_fx='sum') and compute() runs on the sums; the single        *)
(* accumulator update()s both batches in turn and compute() runs on it.     *)
(* An update() that raises leaves what it had counted, as the code does.    *)
(***************************************************************************)
\* A reduction that keeps the larger of the two counts of a sample.
MergeVectors_Max(a, b) ==
    [i \in 1..Len(a) |-> IF a[i] >= b[i] THEN a[i] ELSE b[i]]

\* dist_reduce_fx='sum' over two replicas' vectors.
MergeVectors(a, b) == [i \in 1..Len(a) |-> a[i] + b[i]]

\* The accumulator holding vectors c and t for the dataset of BatchHeader.
CodeEvalObject(c, t) ==
    [kind |-> "code_eval", registered |-> TRUE,
     dataset_size |-> BatchHeader.dataset_size,
     pass_at_k |-> BatchHeader.pass_at_k,
     num_generations |-> BatchHeader.generations_per_sample,
     correct |-> c, total |-> t]

\* The vectors update(gens) can leave, from each pair of vectors in `from`.
UpdatedFrom(dev, from, gens) ==
    UNION { { [correct |-> r.correct, total |-> r.total]
              : r \in UpdateBody(dev, s.correct, s.total, gens) }
            : s \in from }

FreshVectors ==
    { [correct |-> Zeros(BatchHeader.dataset_size),
       total |-> Zeros(BatchHeader.dataset_size)] }

\* What the two replicas can hold after their updates.
ShardStates(dev, first, second) ==
    UpdatedFrom(dev, FreshVectors, first) \X UpdatedFrom(dev, FreshVectors, second)

\* compute() after the reduction, for each way the replicas' updates can go.
ShardedCompute(dev, first, second) ==
    { CodeEvalCompute(CodeEvalObject(MergeVectors(p[1].correct, p[2].correct),
                                     MergeVectors(p[1].total, p[2].total)))
      : p \in ShardStates(dev, first, second) }

\* compute() on one accumulator updated with both batches.
SingleCompute(dev, first, second) ==
    { CodeEvalCompute(CodeEvalObject(s.correct, s.total))
      : s \in UpdatedFrom(dev, UpdatedFrom(dev, FreshVectors, first), second) }

ShardedCalls ==
    [op : {"sharded_compute"},
     eval_device : {EnvStr(STR_LOCAL), Unset},
     first : GenBatches, second : GenBatches]

CallShardedCompute ==
    /\ call.op = "sharded_compute"
    /\ Returned([sharded |-> ShardedCompute(call.eval_device, call.first, call.second),
                 single |-> SingleCompute(call.eval_device, call.first, call.second)])

(***************************************************************************)
(* Every single call, from its arguments to its return.                     *)
(***************************************************************************)
Calls ==
    EstimatorCalls \cup LMCalls \cup MCCalls \cup GenCalls
        \cup LMECECalls \cup MCECECalls \cup BaseCalls \cup ECEBaseCalls
        \cup BlockInitCalls \cup BlockForwardCalls \cup ShardedCalls

InitCalls ==
    /\ CodeIdle
    /\ ComputeIdle
    /\ ScalarIdle
    /\ BucketIdle
    /\ call \in Calls
    /\ returned = NoReturn

NextCalls ==
    \/ CallEstimator
    \/ CallLMUpdate
    \/ CallMCUpdate
    \/ CallGenUpdate
    \/ CallLMECEUpdate
    \/ CallMCECEUpdate
    \/ CallBaseUpdate
    \/ CallECEBaseUpdate
    \/ CallBlockInit
    \/ CallBlockForward
    \/ CallShardedCompute

SpecCalls == InitCalls /\ [][NextCalls]_vars

(***************************************************************************)
(* The replicated code-eval accumulator.                                    *)
(***************************************************************************)
Init == InitCode /\ ComputeIdle /\ ScalarIdle /\ CallIdle /\ BucketIdle

Next ==
    \/ \E w \in Workers : UpdateFirst(w, BatchHeader)
    \/ \E w \in Workers, gens \in GenBatches : AfterBarrier(w, gens)
    \/ \E w \in Workers, gens \in GenBatches : Update(w, gens)
    \/ Merge

Spec == Init /\ [][Next]_vars

\* dist.barrier() is a blocking collective: once every worker has entered it,
\* each waiting worker's call returns and its update() runs on.  Whether and
\* when a worker calls update() is the evaluation loop's choice and gets no
\* fairness.
SpecLive ==
    /\ Init
    /\ [][Next]_vars
    /\ \A w \in Workers : WF_vars(\E gens \in GenBatches : AfterBarrier(w, gens))

(***************************************************************************)
(* Claims about the code-eval accumulator, checked under Spec.              *)
(***************************************************************************)
\* C1: for each scalar-counter metric, the score computed from the sum of
\* the states of two accumulators that were updated separately equals the
\* score computed by one accumulator that was updated with the batches of
\* both.
C1_MergeRoundTrip ==
    accKind # "none" =>
        AccuracyCompute(MergeStates(accA, accB)) = AccuracyCompute(accAll)

\* Both accumulators have scored samples, some right and some wrong, and
\* their own scores differ.
C1_Witness ==
    /\ accKind # "none"
    /\ accA.total > 0
    /\ accB.total > 0
    /\ 0 < accAll.correct
    /\ accAll.correct < accAll.total
    /\ AccuracyCompute(accA) # AccuracyCompute(accB)

NonZero(v) == \E i \in 1..Len(v) : v[i] > 0
Recognised(dev) == dev \in {EnvStr(STR_LOCAL), EnvStr(STR_LAMBDA), EnvStr(STR_MOSAICML)}

\* C2: the per-sample vectors are registered exactly once, by the first
\* update(), with batch['dataset_size'] entries; the barrier is entered right
\* after the registration, while every counter is still zero and before
\* _initialized is set; no later update() registers or resizes them.
C2_LazyInitOnce ==
    \A w \in Workers :
        /\ registrations[w] = (IF updates[w] >= 1 THEN 1 ELSE 0)
        /\ barrierEntries[w] = registrations[w]
        /\ registrations[w] = 0 => correct[w] = <<>> /\ total[w] = <<>>
        /\ registrations[w] = 1 =>
              /\ Len(correct[w]) = BatchHeader.dataset_size
              /\ Len(total[w]) = BatchHeader.dataset_size
              /\ dataset_size[w] = BatchHeader.dataset_size
        /\ pc[w] = "barrier" =>
              /\ ~initialized[w]
              /\ correct[w] = Zeros(BatchHeader.dataset_size)
              /\ total[w] = Zeros(BatchHeader.dataset_size)
        /\ (NonZero(total[w]) \/ NonZero(correct[w])) =>
              initialized[w] /\ barrierEntries[w] = 1

\* A replica that went through a second update() with counters kept.
C2_Witness ==
    \E w \in Workers :
        updates[w] >= 2 /\ pc[w] = "idle" /\ registrations[w] = 1
        /\ \E i \in 1..Len(total[w]) : total[w][i] >= 2

\* C3: no worker increments a per-sample counter, and no reduction over
\* registered vectors runs, before every worker has registered its vectors;
\* at every reduction the workers' vectors have the same length.
C3_BarrierBeforeCounting ==
    /\ \A w \in Workers :
          (NonZero(total[w]) \/ NonZero(correct[w]) \/ initialized[w]) =>
              \A v \in Workers : registrations[v] >= 1
    /\ synced =>
          \A v, w \in Workers :
              Len(total[v]) = Len(total[w]) /\ Len(correct[v]) = Len(correct[w])

\* A reduction over workers that have all counted something.
C3_Witness ==
    synced /\ \A w \in Workers : NonZero(total[w])

\* C4, as claimed: outside update() no replica holds an open client, however
\* its last update() ended.
C4_ClientReleased ==
    \A w \in Workers : pc[w] = "idle" => openClients[w] = 0

\* C5: an update() ends in ValueError exactly when CODE_EVAL_DEVICE is unset
\* or, upper-cased, none of LOCAL, LAMBDA, MOSAICML; then no client was
\* created and invoke() was never called; otherwise the client is the one of
\* the selected backend.
C5_Expected(env) ==
    IF ~env.set THEN "none"
    ELSE IF Upper(env.val) = STR_LOCAL THEN "LocalEvalClient"
    ELSE IF Upper(env.val) = STR_LAMBDA THEN "LambdaEvalClient"
    ELSE IF Upper(env.val) = STR_MOSAICML THEN "MosaicMLLambdaEvalClient"
    ELSE "none"

CountOf(gens, P, i) ==
    Cardinality({j \in P : gens[j].sample_id = i - 1})

C6_Counted(w, gens) ==
    /\ outcome'[w] = "ok"
    /\ total'[w] =
         [i \in 1..Len(total'[w]) |-> (IF pc[w] = "barrier" THEN 0 ELSE total[w][i])
                                      + CountOf(gens, 1..Len(gens), i)]
    /\ \E P \in SUBSET (1..Len(gens)) :
         correct'[w] =
           [i \in 1..Len(correct'[w]) |-> (IF pc[w] = "barrier" THEN 0 ELSE correct[w][i])
                                          + CountOf(gens, P, i)]

C6_UpdateCounts ==
    [][ \A w \in Workers, gens \in GenBatches :
          ((Update(w, gens) \/ AfterBarrier(w, gens))
            /\ Recognised(eval_device[w])
            /\ outcome'[w] # "InvokeError")
          => C6_Counted(w, gens) ]_vars


(***************************************************************************)
(* Claims about compute(), checked under SpecCompute.                       *)
(***************************************************************************)
RECURSIVE SumOverSet(_, _, _, _)
SumOverSet(S, c, n, k) ==
    IF S = {} THEN FZero
    ELSE LET i == CHOOSE j \in S : TRUE
         IN  FAdd(estimator(n, c[i], k), SumOverSet(S \ {i}, c, n, k))

Requested(ce) == {ce.pass_at_k[j] : j \in 1..Len(ce.pass_at_k)}

\* The score compute() returned for k.
ScoreFor(res, k) ==
    IF res.shape = "scalar" THEN res.value ELSE res.value[PassKey(k)]

CodeEvalReturned ==
    /\ metric.kind = "code_eval"
    /\ computes >= 1
    /\ result.shape \in {"scalar", "mapping"}

\* C7: when code-eval compute() returns, the score of every requested k is
\* the sum of estimator(num_generations, correct[i], k) over the samples i
\* with total[i] = num_generations, divided by the number of those samples;
\* samples with any other total count in neither.
C7_MeanOverComplete ==
    CodeEvalReturned =>
        LET n == drawn.num_generations
            done == {i \in 1..Len(drawn.total) : drawn.total[i] = n}
        IN  \A k \in Requested(drawn) :
                /\ done # {}
                /\ FMul(ScoreFor(result, k), Frac(Cardinality(done), 1))
                     = SumOverSet(done, drawn.correct, n, k)

\* A returned score over one complete sample, next to a sample seen fewer
\* times than num_generations and with a correct generation.
C7_Witness ==
    /\ CodeEvalReturned
    /\ drawn.pass_at_k = <<1, 2>>
    /\ drawn.total = <<GenerationsPerSample, 1>>
    /\ drawn.correct = <<1, 1>>
    /\ result.warned

\* C8: code-eval compute() on registered states raises ValueError, and
\* returns nothing, whenever some sample has correct > total, complete or
\* not; the states are left as they were.
C8_CorrectExceedsTotalFatal ==
    ( /\ metric.kind = "code_eval"
      /\ computes >= 1
      /\ drawn.registered
      /\ \E i \in 1..Len(drawn.correct) : drawn.correct[i] > drawn.total[i] )
    => /\ result.shape = "error"
       /\ result.err = "ValueError"
       /\ metric = drawn

\* The only offending sample is an incomplete one.
C8_Witness ==
    /\ metric.kind = "code_eval"
    /\ computes >= 1
    /\ drawn.registered
    /\ drawn.total = <<GenerationsPerSample, 0>>
    /\ drawn.correct = <<1, 1>>
    /\ result.shape = "error"

\* C9: when code-eval compute() returns, it returns a bare scalar if exactly
\* one k was requested, and otherwise a mapping whose keys are exactly the
\* strings "pass@<k>" of the requested k.
C9_ReturnShape ==
    CodeEvalReturned =>
        LET ks == Requested(drawn)
        IN  IF Cardinality(ks) = 1
            THEN result.shape = "scalar" /\ result.value \in Int \X Int
            ELSE /\ result.shape = "mapping"
                 /\ Cardinality(DOMAIN result.value) = Cardinality(ks)
                 /\ 1 \in ks => "pass@1" \in DOMAIN result.value
                 /\ 2 \in ks => "pass@2" \in DOMAIN result.value
                 /\ \A key \in DOMAIN result.value : result.value[key] \in Int \X Int

\* A mapping returned for two requested k.
C9_Witness ==
    /\ CodeEvalReturned
    /\ drawn.pass_at_k = <<1, 2>>
    /\ result.shape = "mapping"
    /\ DOMAIN result.value = {"pass@1", "pass@2"}

\* C10: a compute() that follows another compute() on the same object, with
\* nothing in between, returns or raises the same as the one before it.
C10_ComputeIdempotent ==
    computes >= 2 => result = prevResult

\* Two compute() calls in a row that returned a score from counted samples.
C10_Witness ==
    /\ computes >= 2
    /\ metric.kind = "code_eval"
    /\ result.shape = "mapping"
    /\ \E i \in 1..Len(drawn.correct) : drawn.correct[i] > 0

\* C11: compute() of every metric variant leaves every state and every
\* configuration attribute of the object as it was, whether it returns,
\* warns or raises.
C11_ComputeKeepsState ==
    /\ metric = drawn
    /\ [][metric' = metric]_vars

\* A code-eval compute() that warned and then raised, on counters that are
\* not all zero.
C11_Witness ==
    /\ computes >= 1
    /\ metric.kind = "code_eval"
    /\ result.shape = "error"
    /\ result.err = "ValueError"
    /\ result.warned
    /\ NonZero(metric.total)

(***************************************************************************)
(* Claims about single calls, checked under SpecCalls.                      *)
(***************************************************************************)
EstimatorReturned == call.op = "estimator" /\ returned.done

\* C12: estimator(n, c, k) returns exactly 1.0 whenever n - c < k, for all
\* n >= c >= 0 and k >= 1.
C12_EstimatorBoundary ==
    (EstimatorReturned /\ call.n - call.c < call.k) =>
        /\ returned.raised = "none"
        /\ returned.value = <<1, 1>>

\* More tests than generations: k exceeds n itself, with nothing correct.
C12_Witness ==
    /\ EstimatorReturned
    /\ call.n = 1
    /\ call.c = 0
    /\ call.k = 2
    /\ returned.value = <<1, 1>>

RECURSIVE Binom(_, _)
Binom(n, k) ==
    IF k = 0 THEN 1
    ELSE IF n < k THEN 0
    ELSE Binom(n - 1, k - 1) + Binom(n - 1, k)

\* C13: for 0 <= c <= n and k >= 1 with n - c >= k, estimator(n, c, k) is
\* 1 - C(n-c, k) / C(n, k); estimator(4, 1, 1) is 1/4 and estimator(n, 0, k)
\* is 0.
C13_EstimatorValue ==
    (EstimatorReturned /\ call.n - call.c >= call.k) =>
        /\ returned.raised = "none"
        /\ returned.value
             = FSub(<<1, 1>>, Frac(Binom(call.n - call.c, call.k),
                                   Binom(call.n, call.k)))
        /\ (call.n = 4 /\ call.c = 1 /\ call.k = 1) => returned.value = <<1, 4>>
        /\ call.c = 0 => returned.value = <<0, 1>>

\* The worked example estimator(4, 1, 1).
C13_Witness ==
    /\ EstimatorReturned
    /\ call.n = 4
    /\ call.c = 1
    /\ call.k = 1
    /\ returned.value = <<1, 4>>

\* C14: for fixed n and k, estimator(n, c, k) is at least estimator(n, b, k)
\* for every b <= c, on either side of the boundary n - c < k.
C14_EstimatorMonotone ==
    EstimatorReturned =>
        \A b \in 0..call.c :
            FLeq(estimator(call.n, b, call.k), returned.value)

\* A call past the boundary whose smaller c lie before it and score less.
C14_Witness ==
    /\ EstimatorReturned
    /\ call.n = 4
    /\ call.c = 3
    /\ call.k = 2
    /\ estimator(4, 2, 2) # returned.value
    /\ estimator(4, 0, 2) # estimator(4, 2, 2)

\* The token whose logit is the largest of the row (rows have no ties).
TopToken(row) ==
    CHOOSE t \in 0..(Len(row) - 1) :
        \A u \in 0..(Len(row) - 1) : u # t => row[u + 1] < row[t + 1]

\* Continuation index p reads outputs and labels at 0-based position p - 1,
\* the p-th position.
SampleMatches(sample) ==
    \A i \in 1..Len(sample.cont_idx) :
        LET p == sample.cont_idx[i]
        IN  TopToken(sample.outputs[p]) = sample.labels[p]

Matching(batch) == {j \in 1..Len(batch) : SampleMatches(batch[j])}

\* C15: LM accuracy update() adds one to total per sample, and one to correct
\* for exactly the samples whose argmax token equals the label at every
\* continuation position.
C15_LMSequenceExact ==
    (call.op = "lm_update" /\ returned.done) =>
        /\ returned.raised = "none"
        /\ returned.value.total = call.self.total + Len(call.batch)
        /\ returned.value.correct
             = call.self.correct + Cardinality(Matching(call.batch))

\* A continuation of three positions predicted right at the first two and
\* wrong at the third: scored, and not counted correct.
C15_Witness ==
    /\ call.op = "lm_update"
    /\ returned.done
    /\ call.self = FreshState
    /\ call.batch = << [outputs |-> << <<1, 0>>, <<0, 1>>, <<0, 1>> >>,
                        labels |-> <<0, 1, 0>>,
                        cont_idx |-> <<1, 2, 3>>] >>
    /\ returned.value = [correct |-> 0, total |-> 1]

\* The perplexity of the choice at 0-based offset o of question q.
ChoicePerplexity(batch, q, o) ==
    Perplexity(batch.cross_entropy[batch.choice_groupings[q][1] + o + 1])

GroupSize(batch, q) == batch.choice_groupings[q][2] - batch.choice_groupings[q][1]

\* The gold choice of question q exists, no choice of the question has a
\* lower perplexity, and every choice before it has a higher one.
GoldSelected(batch, q) ==
    LET g == batch.gold_indices[q]
    IN  /\ g < GroupSize(batch, q)
        /\ \A o \in 0..(GroupSize(batch, q) - 1) :
               /\ ChoicePerplexity(batch, q, g) <= ChoicePerplexity(batch, q, o)
               /\ (o < g => ChoicePerplexity(batch, q, g) < ChoicePerplexity(batch, q, o))

\* C16: multiple-choice update() adds one to total per question, and one to
\* correct for exactly the questions whose gold index is the index, within
\* the question's group, of the choice with the minimum perplexity.
C16_MCSelection ==
    (call.op = "mc_update" /\ returned.done) =>
        /\ returned.raised = "none"
        /\ returned.value.total
             = call.self.total + Len(call.batch.choice_groupings)
        /\ returned.value.correct
             = call.self.correct
               + Cardinality({q \in 1..Len(call.batch.choice_groupings) :
                                 GoldSelected(call.batch, q)})

\* A question of two choices, then one of three whose middle choice has the
\* least perplexity and is the gold one: the second counts as correct, once.
C16_Witness ==
    /\ call.op = "mc_update"
    /\ returned.done
    /\ call.self = FreshState
    /\ call.batch.cross_entropy = <<1, 0, 1, 0, 2>>
    /\ call.batch.choice_groupings = << <<0, 2>>, <<2, 5>> >>
    /\ call.batch.gold_indices = <<0, 1>>
    /\ returned.value = [correct |-> 1, total |-> 2]

\* The output and the label set after the declared transforms, the first
\* declared applied first (at most two are declared in the batches drawn).
CleanedInOrder(funcs, output, labels) ==
    LET raw == [output |-> output, labels |-> labels]
    IN  IF ~funcs.set \/ Len(funcs.val) = 0 THEN raw
        ELSE LET first == ApplyFunc(funcs.val[1], output, labels)
             IN  IF Len(funcs.val) = 1 THEN first
                 ELSE ApplyFunc(funcs.val[2], first.output, first.labels)

IsPrefix(label, output) ==
    /\ Len(label) <= Len(output)
    /\ \A i \in 1..Len(label) : output[i] = label[i]

PairAccepted(batch, j) ==
    LET cleaned == CleanedInOrder(batch.post_processing_funcs, batch.outputs[j],
                                  {batch.labels[j][i] : i \in 1..Len(batch.labels[j])})
    IN  \E label \in cleaned.labels : IsPrefix(label, cleaned.output)

LMConfidence(sample) ==
    LET tops == {f \in {sample.probs[sample.cont_idx[i]][t] :
                           i \in 1..Len(sample.cont_idx), t \in 1..2} :
                    \E i \in 1..Len(sample.cont_idx) :
                        /\ f \in {sample.probs[sample.cont_idx[i]][t] : t \in 1..2}
                        /\ \A t \in 1..2 :
                               FLeq(sample.probs[sample.cont_idx[i]][t], f)}
    IN  CHOOSE f \in tops : \A g \in tops : FLeq(f, g)

MCConfidence(batch, q) ==
    LET a == RowProbability(batch.rows[2 * q - 1])
        b == RowProbability(batch.rows[2 * q])
        top == IF FLeq(a, b) THEN b ELSE a
        both == FAdd(a, b)
    IN  Frac(top[1] * both[2], top[2] * both[1])

\* floor(confidence * n_buckets), but n_buckets - 1 for confidence 1.
ExpectedBucket(confidence, n_buckets) ==
    IF confidence = <<1, 1>> THEN n_buckets - 1
    ELSE CHOOSE b \in 0..n_buckets :
            /\ b * confidence[2] <= confidence[1] * n_buckets
            /\ confidence[1] * n_buckets < (b + 1) * confidence[2]

ItemConfidences ==
    IF call.op = "ece_lm_update"
    THEN [j \in 1..Len(call.batch) |-> LMConfidence(call.batch[j])]
    ELSE [q \in 1..Len(call.batch.gold_indices) |-> MCConfidence(call.batch, q)]

\* C18: an update() of either calibration-error variant whose confidences
\* all lie in [0, 1] increments, for each item, the bucket of index
\* floor(confidence * n_buckets), or n_buckets - 1 for confidence 1.0, and
\* no index outside 0..n_buckets-1; with ten buckets confidence 0.95 and
\* confidence 1.0 both go to bucket 9.
C18_BucketIndex ==
    ( /\ call.op \in {"ece_lm_update", "ece_mc_update"}
      /\ returned.done
      /\ returned.raised = "none" )
    => LET n == call.self.n_buckets
           conf == ItemConfidences
       IN  /\ DOMAIN returned.value.bucket_totals = 1..n
           /\ \A i \in 0..(n - 1) :
                  returned.value.bucket_totals[i + 1]
                    = Cardinality({j \in 1..Len(conf) :
                                      ExpectedBucket(conf[j], n) = i})
           /\ \A j \in 1..Len(conf) :
                  /\ ExpectedBucket(conf[j], n) \in 0..(n - 1)
                  /\ (n = 10 /\ conf[j] \in {<<19, 20>>, <<1, 1>>})
                        => ExpectedBucket(conf[j], n) = 9

\* Ten buckets; one sample of confidence 1.0 and one of confidence 0.95 end
\* in the last bucket.
C18_Witness ==
    /\ call.op = "ece_lm_update"
    /\ returned.done
    /\ returned.raised = "none"
    /\ call.self.n_buckets = 10
    /\ Len(call.batch) = 2
    /\ LMConfidence(call.batch[1]) = <<1, 1>>
    /\ LMConfidence(call.batch[2]) = <<19, 20>>
    /\ returned.value.bucket_totals[10] = 2

(***************************************************************************)
(* Calibration-error compute(), checked under SpecCompute.                  *)
(***************************************************************************)
RECURSIVE TotalOver(_, _)
TotalOver(v, S) ==
    IF S = {} THEN 0
    ELSE LET i == CHOOSE j \in S : TRUE IN v[i] + TotalOver(v, S \ {i})

\* The share of bucket i (0-based) times the gap between its accuracy and
\* its midpoint (2i + 1) / (2 n_buckets).
WeightedGap(ece, i) ==
    LET t == ece.bucket_totals[i + 1]
        all == TotalOver(ece.bucket_totals, 1..ece.n_buckets)
        gap == FSub(Frac(ece.bucket_correct[i + 1], t),
                    Frac(2 * i + 1, 2 * ece.n_buckets))
    IN  FMul(Frac(t, all), IF gap[1] < 0 THEN <<0 - gap[1], gap[2]>> ELSE gap)

RECURSIVE GapSum(_, _)
GapSum(ece, S) ==
    IF S = {} THEN <<0, 1>>
    ELSE LET i == CHOOSE j \in S : TRUE
         IN  FAdd(WeightedGap(ece, i), GapSum(ece, S \ {i}))

\* C19: calibration-error compute() returns the sum, over the buckets with
\* bucket_totals > 0, of their share of all observations times
\* |bucket_correct / bucket_totals - (2i + 1) / (2 n_buckets)|; with no
\* observation at all it returns 0.
C19_CalibrationError ==
    (metric.kind \in {"ece_lm", "ece_mc"} /\ computes >= 1) =>
        /\ result.shape = "scalar"
        /\ result.value
             = GapSum(drawn, {i \in 0..(drawn.n_buckets - 1) :
                                 drawn.bucket_totals[i + 1] > 0})
        /\ (\A i \in 1..drawn.n_buckets : drawn.bucket_totals[i] = 0)
              => result.value = <<0, 1>>

\* An empty first bucket and a second bucket that is half right: the gap is
\* |1/2 - 3/4| over the whole weight.
C19_Witness ==
    /\ metric.kind \in {"ece_lm", "ece_mc"}
    /\ computes >= 1
    /\ drawn.bucket_totals = <<0, 2>>
    /\ drawn.bucket_correct = <<0, 1>>
    /\ result.value = <<1, 4>>

(***************************************************************************)
(* update() outside the scoring variants, checked under SpecCalls.          *)
(***************************************************************************)
\* C20: update() on the base metric class, or on the calibration-error base
\* class, raises NotImplementedError and leaves the object as it was.
C20_AbstractUpdateFails ==
    (call.op \in {"metric_update", "ece_update"} /\ returned.done) =>
        /\ returned.raised = "NotImplementedError"
        /\ returned.value = call.self

(***************************************************************************)
(* MPTBlock, checked under SpecCalls.                                       *)
(***************************************************************************)
RECURSIVE Mentions(_, _)
Mentions(t, f) ==
    \/ t.f = f
    \/ \E i \in 1..Len(t.args) : Mentions(t.args[i], f)

\* C21: forward() runs normalization, self-attention, residual merge,
\* normalization, feed-forward, residual merge in that order, and its output
\* is built from the feed-forward sub-layer's output.
C21_ForwardOrder ==
    (call.op = "block_forward" /\ returned.done /\ call.self.has_norm_2) =>
        /\ returned.value.steps
             = <<"norm_1", "attn", "merge", "norm_2", "ffn", "merge">>
        /\ Mentions(returned.value.x, "ffn")

\* C22: under 'layer' the squared weights are 1/(2L) and (2L-1)/(2L) for
\* attention and 1/(2L+1) and 2L/(2L+1) for the FFN; under 'coefficient'
\* they are residual_coeff and 1 - residual_coeff for both; each pair of
\* squares sums to one.
C22_ResidualWeights ==
    (call.op = "block_init" /\ returned.done /\ returned.raised = "none"
        /\ call.args.residual_modification # NoneStr) =>
        LET c == returned.value.coeffs
            L == call.args.layer_num
            r == call.args.residual_coeff.val
        IN  /\ FAdd(Square(c.stream_coeff_attn), Square(c.branch_coeff_attn)) = <<1, 1>>
            /\ FAdd(Square(c.stream_coeff_ffn), Square(c.branch_coeff_ffn)) = <<1, 1>>
            /\ call.args.residual_modification = Str("layer") =>
                 /\ Square(c.branch_coeff_attn) = Frac(1, 2 * L)
                 /\ Square(c.stream_coeff_attn) = Frac(2 * L - 1, 2 * L)
                 /\ Square(c.branch_coeff_ffn) = Frac(1, 2 * L + 1)
                 /\ Square(c.stream_coeff_ffn) = Frac(2 * L, 2 * L + 1)
            /\ call.args.residual_modification = Str("coefficient") =>
                 /\ Square(c.branch_coeff_attn) = r
                 /\ Square(c.stream_coeff_attn) = FSub(<<1, 1>>, r)
                 /\ Square(c.branch_coeff_ffn) = r
                 /\ Square(c.stream_coeff_ffn) = FSub(<<1, 1>>, r)

\* A block of the second layer built under 'layer'.
C22_Witness ==
    /\ call.op = "block_init"
    /\ returned.done
    /\ returned.raised = "none"
    /\ call.args.residual_modification = Str("layer")
    /\ call.args.layer_num = 2
    /\ Square(returned.value.coeffs.stream_coeff_attn) = <<3, 4>>

(***************************************************************************)
(* Claims about the code-eval accumulator's counters, checked under Spec.   *)
(***************************************************************************)
\* The element-wise sum of the workers' vectors, as the reduction forms it.
RECURSIVE SumVectors(_, _)
SumVectors(vec, S) ==
    IF S = {} THEN Zeros(BatchHeader.dataset_size)
    ELSE LET w == CHOOSE x \in S : TRUE
             rest == SumVectors(vec, S \ {w})
         IN  [i \in 1..BatchHeader.dataset_size |-> vec[w][i] + rest[i]]

\* The accumulator compute() sees after the reduction over the workers.
Reduced ==
    [registered |-> TRUE, dataset_size |-> BatchHeader.dataset_size,
     pass_at_k |-> BatchHeader.pass_at_k,
     num_generations |-> BatchHeader.generations_per_sample,
     correct |-> SumVectors(correct, Workers),
     total |-> SumVectors(total, Workers)]

\* C23: in every state reached by update() calls and reductions, each
\* worker's correct[i] is at most its total[i], and so is the element-wise
\* sum over the workers, so compute()'s check for correct > total never fires.
C23_CorrectAtMostTotal ==
    /\ \A w \in Workers :
          /\ Len(correct[w]) = Len(total[w])
          /\ \A i \in 1..Len(total[w]) : correct[w][i] <= total[w][i]
    /\ (\A w \in Workers : registrations[w] >= 1) =>
          /\ \A i \in 1..BatchHeader.dataset_size :
                SumVectors(correct, Workers)[i] <= SumVectors(total, Workers)[i]
          /\ LET out == CodeEvalCompute(Reduced)
             IN  ~(out.shape = "error" /\ out.err = "ValueError")

\* A reduction over workers that have each counted a sample more than once.
C23_Witness ==
    /\ synced
    /\ \A w \in Workers : \E i \in 1..Len(total[w]) : total[w][i] >= 2

\* C24, as claimed: an update() on an initialised accumulator that ends in an
\* error leaves correct and total as they were before the call.
C24_FailedUpdateRollsBack ==
    [][ \A w \in Workers :
          (/\ initialized[w]
           /\ pc[w] = "idle"
           /\ updates'[w] = updates[w] + 1
           /\ outcome'[w] # "ok")
          => (correct'[w] = correct[w] /\ total'[w] = total[w]) ]_vars

\* C25, as claimed: after an update() that ended in the configuration error
\* the accumulator is unconfigured: no vectors registered, the barrier not
\* entered, the initialised flag false.
C25_ConfigErrorLeavesUnconfigured ==
    \A w \in Workers :
        (pc[w] = "idle" /\ outcome[w] = "ValueError") =>
            /\ ~initialized[w]
            /\ registrations[w] = 0
            /\ barrierEntries[w] = 0
            /\ correct[w] = <<>>
            /\ total[w] = <<>>

\* C26, as claimed: on an accumulator that successful update() calls can
\* leave (registered, correct[i] <= total[i] everywhere), compute() does not
\* raise and returns for every requested k a value in [0, 1], also when no
\* sample has been seen num_generations times.
C26_ComputeNeverRaises ==
    ( /\ metric.kind = "code_eval"
      /\ computes >= 1
      /\ drawn.registered
      /\ \A i \in 1..Len(drawn.total) : drawn.correct[i] <= drawn.total[i] )
    => /\ result.shape \in {"scalar", "mapping"}
       /\ \A k \in Requested(drawn) :
             /\ FLeq(FZero, ScoreFor(result, k))
             /\ FLeq(ScoreFor(result, k), FOne)

\* C27: splitting the generations between two workers, summing their correct
\* and total element-wise and running compute() gives what compute() gives on
\* one accumulator updated with all the batches; a sample seen fewer than
\* num_generations times by each worker and num_generations times in the sum
\* is complete after the reduction.
C27_ShardedEqualsSingle ==
    (call.op = "sharded_compute" /\ returned.done) =>
        /\ returned.value.sharded = returned.value.single
        /\ \A p \in ShardStates(call.eval_device, call.first, call.second) :
              LET n == BatchHeader.generations_per_sample
                  merged == MergeVectors(p[1].total, p[2].total)
              IN  \A i \in 1..Len(merged) :
                      (p[1].total[i] < n /\ p[2].total[i] < n /\ merged[i] = n) =>
                          /\ CompleteMask(merged, n)[i]
                          /\ LET out == CodeEvalCompute(CodeEvalObject(
                                            MergeVectors(p[1].correct, p[2].correct),
                                            merged))
                             IN  /\ out \in returned.value.sharded
                                 /\ out.shape \in {"scalar", "mapping"}

\* Each worker saw one of the two generations of sample 0; compute() on the
\* sums returns a score.
C27_Witness ==
    /\ call.op = "sharded_compute"
    /\ returned.done
    /\ call.eval_device = EnvStr(STR_LOCAL)
    /\ \E p \in ShardStates(call.eval_device, call.first, call.second) :
          /\ p[1].total = <<1, 0>>
          /\ p[2].total = <<1, 0>>
    /\ \E out \in returned.value.sharded : out.shape = "mapping"

\* C28: a worker enters the lazy-initialisation barrier at most once, and if
\* every worker makes at least one update() call then every worker that
\* waits in the barrier eventually leaves it, initialised.
C28_BarrierOnceAndLeft ==
    /\ [](\A w \in Workers : barrierEntries[w] <= 1)
    /\ (\A w \in Workers : <>(updates[w] >= 1)) =>
          (\A w \in Workers :
              /\ <>(initialized[w])
              /\ [](pc[w] = "barrier" => <>(pc[w] = "idle")))

\* Every worker has been through the barrier once and has updated again.
C28_Witness ==
    \A w \in Workers :
        /\ barrierEntries[w] = 1
        /\ initialized[w]
        /\ pc[w] = "idle"
        /\ updates[w] >= 2

(***************************************************************************)
(* Claims about the scalar counters over sequences of update() calls,       *)
(* checked under SpecScalar.                                                *)
(***************************************************************************)
C29_Counted(acc, items) ==
    /\ acc.total = items
    /\ 0 <= acc.correct
    /\ acc.correct <= acc.total

C29_Raised(before, after, items) ==
    /\ after.total = before.total + items
    /\ after.correct >= before.correct
    /\ after.correct <= before.correct + items

\* C29: for the language-modelling, multiple-choice and exact-match
\* accuracies, after any sequence of update() calls total is the number of
\* items scored so far and 0 <= correct <= total; an update() with n items
\* raises total by n and correct by between 0 and n.
C29_ScalarCounters ==
    /\ [](/\ C29_Counted(accA, scoredItems.A)
          /\ C29_Counted(accB, scoredItems.B)
          /\ C29_Counted(accAll, scoredItems.A + scoredItems.B))
    /\ [][ LET given == (scoredItems'.A + scoredItems'.B)
                          - (scoredItems.A + scoredItems.B)
           IN  /\ C29_Raised(accAll, accAll', given)
               /\ C29_Raised(accA, accA', scoredItems'.A - scoredItems.A)
               /\ C29_Raised(accB, accB', scoredItems'.B - scoredItems.B) ]_vars

\* Several updates of a multiple-choice accuracy, some items right and some
\* wrong.
C29_Witness ==
    /\ accKind = "mc_acc"
    /\ scoredItems.A >= 2
    /\ scoredItems.B >= 1
    /\ accAll.total = MaxScored
    /\ accAll.correct > 0
    /\ accAll.correct < accAll.total

(***************************************************************************)
(* Claims about the calibration-error buckets over sequences of update()    *)
(* calls, checked under SpecBuckets.                                        *)
(***************************************************************************)
C30_Changed(before, after) ==
    {i \in 1..before.n_buckets : after.bucket_totals[i] # before.bucket_totals[i]}

=============================================================================
